---- MODULE Spec2Model ----
(***************************************************************************)
(* Model of src/App/PropertyStandard.cpp: the typed property cells.        *)
(*                                                                         *)
(* Part 1 (Spec): one constrained scalar cell, of the integer family       *)
(* (PropertyIntegerConstraint, PropertyPercent) or of the float family     *)
(* (PropertyFloatConstraint, PropertyPrecision), the Constraints records   *)
(* it points to through the raw pointer _ConstStruct, and the notification *)
(* bracket aboutToSetValue() / hasSetValue().                              *)
(*                                                                         *)
(* Numbers. A long is modelled by an integer. A double is modelled by an   *)
(* integer count of thousandths (DblUnit), so that the step 0.001 of the   *)
(* PrecisionStandard table is exact and the conversion long -> double is   *)
(* a multiplication, not the identity.                                     *)
(***************************************************************************)
EXTENDS Integers, Sequences, FiniteSets, TLC

VARIABLES
    cell,    \* the constrained cell: class, alive, _ConstStruct, value
    heap,    \* the Constraints records: the two static tables and the owned ones
    last,    \* the last call: operation, argument, outcome, event trace
    scalar,  \* the scalar cell: class, value, whether it is its object's Label
    doc,     \* what a Label cell reaches: active transaction, a related cell
    pair,    \* a cell and the cell Copy() made of it, with the sub-objects they point at
    mlist,   \* the material list cell: _lValueList, formatVersion
    saved,   \* a cell, the XML text Save wrote of it and the fresh cell Restore read it into
    view     \* the fluid boundary constraint's properties and its view's pShapeSep

vars == <<cell, heap, last, scalar, doc, pair, mlist, saved, view>>

\* ------------------------------------------------------------------ bounds
MaxVal == 2      \* numeric inputs range over 0..MaxVal
NumAddrs == 2    \* heap addresses new Constraints() can return

\* --------------------------------------------------------------- constants
DblUnit == 1000                  \* one model double unit is 0.001
IntMax == 2147483647             \* std::numeric_limits<int>::max()
IntLowest == -IntMax - 1         \* std::numeric_limits<int>::lowest()
DblMax == 2147483647             \* stands for std::numeric_limits<double>::max()
DblLowest == -DblMax             \* std::numeric_limits<double>::lowest()
NullPtr == 0                     \* nullptr
PercentId == -1                  \* address of the static table percent
PrecisionId == -2                \* address of the static table PrecisionStandard

Addrs == 1..NumAddrs
DescIds == {PercentId, PrecisionId} \cup Addrs

Vals == 0..MaxVal                             \* longs
DVals == {k * DblUnit : k \in Vals}           \* doubles
Steps == 0..2                                 \* longs given as a step
DSteps == {0, 1, DblUnit}                     \* doubles given as a step (1 = 0.001)

\* TYPESYSTEM_SOURCE(child, parent): the classes a dynamic_cast to `base` accepts.
DerivedFrom(base) ==
    CASE base = "PropertyInteger" ->
            {"PropertyInteger", "PropertyIntegerConstraint", "PropertyPercent"}
      [] base = "PropertyFloat" ->
            {"PropertyFloat", "PropertyFloatConstraint", "PropertyPrecision"}
      [] base = "PropertyIntegerConstraint" ->
            {"PropertyIntegerConstraint", "PropertyPercent"}
      [] base = "PropertyFloatConstraint" ->
            {"PropertyFloatConstraint", "PropertyPrecision"}
      [] base = "PropertyString" ->
            {"PropertyString", "PropertyFont", "PropertyPersistentObject"}
      [] OTHER -> {base}

IsFloat == cell.kind \in DerivedFrom("PropertyFloat")
NumVals == IF IsFloat THEN DVals ELSE Vals

\* --------------------------------------------------------------- the heap
\* A Constraints record. st: "static" (a file-level table), "unalloc" (never
\* returned by new), "live", "freed" (deleted), "freedTwice" (deleted again).
Unalloc ==
    [st |-> "unalloc", LowerBound |-> 0, UpperBound |-> 0, StepSize |-> 0, deletable |-> FALSE]

\* const PropertyIntegerConstraint::Constraints percent = {0, 100, 1};
percent ==
    [st |-> "static", LowerBound |-> 0, UpperBound |-> 100, StepSize |-> 1, deletable |-> FALSE]

\* const PropertyFloatConstraint::Constraints PrecisionStandard = {0.0, DBL_MAX, 0.001};
PrecisionStandard ==
    [st |-> "static", LowerBound |-> 0, UpperBound |-> DblMax, StepSize |-> 1, deletable |-> FALSE]

\* Constraints* c = new Constraints(); c->setDeletable(true); c->LowerBound = ...
NewConstraints(lo, hi, step) ==
    [st |-> "live", LowerBound |-> lo, UpperBound |-> hi, StepSize |-> step, deletable |-> TRUE]

Max2(x, y) == IF x > y THEN x ELSE y

\* delete p. Deleting a record that is not there (a second delete of the same
\* address) is undefined; the model marks it and stops there (Crashed).
Delete(h, p) ==
    [h EXCEPT ![p] = [st |-> IF @.st \in {"live", "static"} THEN "freed" ELSE "freedTwice",
                      LowerBound |-> 0, UpperBound |-> 0, StepSize |-> 0,
                      deletable |-> FALSE]]

Crashed == \E p \in DescIds : heap[p].st = "freedTwice"

\* The address new Constraints() returns: the lowest one not in use.
Fresh(h) == {p \in Addrs : h[p].st # "live" /\ \A q \in Addrs : q < p => h[q].st = "live"}

\* p->isDeletable(). Reading a deleted record is undefined: `junk` is what the
\* read happens to return.
IsDeletable(h, p, junk) == IF h[p].st = "freed" THEN junk ELSE h[p].deletable

\* ---------------------------------------------------------- event traces
\* "pre" = aboutToSetValue(), "post" = hasSetValue(), "val" = the raw value is
\* written, "desc" = _ConstStruct is replaced, "throw" = the call is left by
\* an exception.
Call(op, arg, res, ev) == [op |-> op, arg |-> arg, res |-> res, ev |-> ev]

\* ------------------------------------------------------ dynamic (Py) values
\* A PyObject handed to setPyObject. t: "int", "float", "str", "tuple", "dict".
\* et: the Python type of the numbers in a tuple or dict ("int" or "float");
\* keys: the entries present (a well-formed tuple has all four). A Python int
\* is an integer; a Python float is a double (in DblUnit thousandths).
AllKeys == {"value", "min", "max", "step"}
Py(t, et, keys, value, mn, mx, step) ==
    [t |-> t, et |-> et, keys |-> keys, value |-> value, min |-> mn, max |-> mx, step |-> step]

PyInt(v) == Py("int", "int", {"value"}, v, 0, 0, 0)
PyFloat(v) == Py("float", "float", {"value"}, v, 0, 0, 0)
PyStr == Py("str", "str", {}, 0, 0, 0, 0)

NumsOf(et) == IF et = "int" THEN Vals ELSE DVals
StepsOf(et) == IF et = "int" THEN Steps ELSE DSteps

\* An absent entry of a dict reads 0 here and is never used.
PyTuples(et) ==
    {Py("tuple", et, AllKeys, v, mn, mx, st) :
        v \in NumsOf(et), mn \in NumsOf(et), mx \in NumsOf(et), st \in StepsOf(et)}
    \cup {Py("tuple", et, {"value", "min"}, 0, 0, 0, 0)}     \* a 2-tuple
PyDicts(et) ==
    {Py("dict", et, {"value"}, v, 0, 0, 0) : v \in NumsOf(et)}
    \cup {Py("dict", et, {"value", "step"}, v, 0, 0, st) : v \in NumsOf(et), st \in StepsOf(et)}
    \cup {Py("dict", et, {"value", "min", "max"}, v, mn, mx, 0) :
            v \in NumsOf(et), mn \in NumsOf(et), mx \in NumsOf(et)}
    \cup {Py("dict", et, {"min", "max"}, 0, 0, 0, 0)}        \* no "value"

PyObjs ==
    {PyInt(v) : v \in Vals} \cup {PyFloat(v) : v \in DVals} \cup {PyStr}
    \cup PyTuples("int") \cup PyTuples("float") \cup PyDicts("int") \cup PyDicts("float")

\* PyLong_AsLong; static_cast<double>(long).
ToDouble(l) == l * DblUnit
\* One number of a tuple or dict read with format "d": a float, or an int
\* converted to double.
AsDouble(et, n) == IF et = "int" THEN ToDouble(n) ELSE n

\* --------------------------------------------- the constrained scalar cell
\* if (temp > UpperBound) temp = UpperBound; else if (temp < LowerBound) temp = LowerBound;
ClampNoUpper(temp, lo, hi) == IF temp < lo THEN lo ELSE temp
ClampTemp(temp, lo, hi) ==
    IF temp > hi THEN hi ELSE IF temp < lo THEN lo ELSE temp

\* The bounds setPyObject reads through _ConstStruct. Reading a deleted record
\* is undefined: jlo, jhi are what the reads happen to return.
LowerOf(h, p, jlo) == IF h[p].st = "freed" THEN jlo ELSE h[p].LowerBound
UpperOf(h, p, jhi) == IF h[p].st = "freed" THEN jhi ELSE h[p].UpperBound

\* setConstraints(sConstrain): the heap afterwards.
\*   if (_ConstStruct != sConstrain)
\*       if (_ConstStruct && _ConstStruct->isDeletable()) delete _ConstStruct;
SetConstraintsNoFlag(h, old, sConstrain, junk) ==
    IF old # sConstrain /\ old # NullPtr THEN Delete(h, old) ELSE h
SetConstraintsHeap(h, old, sConstrain, junk) ==
    IF old # sConstrain /\ old # NullPtr /\ IsDeletable(h, old, junk)
    THEN Delete(h, old)
    ELSE h

\* What one call leaves behind: how it ended, the cell's _ConstStruct and
\* value, the heap, and the events in the order the code performs them.
Outcome(res, cs, val, h, ev) == [res |-> res, cs |-> cs, val |-> val, heap |-> h, ev |-> ev]
Thrown(res, ev) == Outcome(res, cell.cs, cell.val, heap, ev)

\* What a call on the constrained cell leaves alone, and what a call on a
\* scalar cell leaves alone.
OtherThanConstrained == UNCHANGED <<scalar, doc, pair, mlist, saved, view>>
OtherThanScalar == UNCHANGED <<cell, heap, pair, mlist, saved, view>>
OtherThanPair == UNCHANGED <<cell, heap, scalar, doc, mlist, saved, view>>
OtherThanMaterialList == UNCHANGED <<cell, heap, scalar, doc, pair, saved, view>>
OtherThanXml == UNCHANGED <<cell, heap, scalar, doc, pair, mlist, view>>
OtherThanView == UNCHANGED <<cell, heap, scalar, doc, pair, mlist, saved>>

Commit(op, arg, o) ==
    /\ cell' = [cell EXCEPT !.cs = o.cs, !.val = o.val]
    /\ heap' = o.heap
    /\ last' = Call(op, arg, o.res, o.ev)
    /\ OtherThanConstrained

Dangling == cell.cs # NullPtr /\ heap[cell.cs].st = "freed"
JunkBools == IF Dangling THEN BOOLEAN ELSE {FALSE}
JunkNums == IF Dangling THEN NumVals ELSE {0}
\* setPyObject reads the bounds for a number and isDeletable() for a tuple or dict.
JunkBoolsFor(obj) == IF obj.t \in {"dict", "tuple"} THEN JunkBools ELSE {FALSE}
JunkNumsFor(obj) == IF obj.t \in {"int", "float"} THEN JunkNums ELSE {0}

\* The numeric branch of both setPyObject: clamp when a descriptor is set,
\* then the bracketed assignment.
SetUnclamped(temp, jlo, jhi) == Outcome("ok", cell.cs, temp, heap, <<"pre", "val", "post">>)
SetClamped(temp, jlo, jhi) ==
    LET t2 == IF cell.cs # NullPtr
              THEN ClampTemp(temp, LowerOf(heap, cell.cs, jlo), UpperOf(heap, cell.cs, jhi))
              ELSE temp
    IN  Outcome("ok", cell.cs, t2, heap, <<"pre", "val", "post">>)

\* The tail of both setPyObject for a tuple or dict: a new deletable record at
\* address p, the value clamped into it, setConstraints(c), then the bracket.
Install(p, value, lo, hi, step, junk) ==
    LET h1 == [heap EXCEPT ![p] = NewConstraints(lo, hi, step)]
        h2 == SetConstraintsHeap(h1, cell.cs, p, junk)
    IN  Outcome("ok", p, ClampTemp(value, lo, hi), h2, <<"desc", "pre", "val", "post">>)

\* Wrapped_ParseTupleAndKeywords(value, "l|lll") / PyArg_ParseTuple(value, "llll")
IntParses(obj) ==
    /\ obj.et = "int"
    /\ "value" \in obj.keys
    /\ obj.t = "tuple" => obj.keys = AllKeys
\* ... "d|ddd" / "dddd"
FloatParses(obj) ==
    /\ "value" \in obj.keys
    /\ obj.t = "tuple" => obj.keys = AllKeys

\* c->StepSize = std::max<long>(1, valConstr[3]);
IntStepRaw(step) == step
IntStep(step) == Max2(1, step)

\* PropertyIntegerConstraint::setPyObject
IntegerConstraint_setPyObject(obj, p, junk, jlo, jhi) ==
    IF obj.t = "int" THEN SetClamped(obj.value, jlo, jhi)
    ELSE IF obj.t \in {"dict", "tuple"} THEN
        IF ~IntParses(obj) THEN Thrown("PyException", <<"throw">>)
        ELSE Install(p, obj.value,
                     IF "min" \in obj.keys THEN obj.min ELSE IntLowest,
                     IF "max" \in obj.keys THEN obj.max ELSE IntMax,
                     IntStep(IF "step" \in obj.keys THEN obj.step ELSE 1),
                     junk)
    ELSE Thrown("TypeError", <<"throw">>)

\* if (stepSize < std::numeric_limits<double>::epsilon()) throw ValueError.
\* stepSize is in thousandths and 0 < epsilon < 0.001.
StepBelowZero(stepSize) == stepSize < 0
StepBelowEpsilon(stepSize) == stepSize < 1

\* double stepSize = valConstr[3], 1.0 when the dict has no "step".
FloatStepOf(obj) == IF "step" \in obj.keys THEN AsDouble(obj.et, obj.step) ELSE DblUnit

\* PropertyFloatConstraint::setPyObject
FloatConstraint_setPyObject(obj, p, junk, jlo, jhi) ==
    IF obj.t = "float" THEN SetClamped(obj.value, jlo, jhi)
    ELSE IF obj.t = "int" THEN SetClamped(ToDouble(obj.value), jlo, jhi)
    ELSE IF obj.t \in {"dict", "tuple"} THEN
        IF ~FloatParses(obj) THEN Thrown("PyException", <<"throw">>)
        ELSE IF StepBelowEpsilon(FloatStepOf(obj)) THEN Thrown("ValueError", <<"throw">>)
        ELSE Install(p, AsDouble(obj.et, obj.value),
                     IF "min" \in obj.keys THEN AsDouble(obj.et, obj.min) ELSE DblLowest,
                     IF "max" \in obj.keys THEN AsDouble(obj.et, obj.max) ELSE DblMax,
                     FloatStepOf(obj), junk)
    ELSE Thrown("TypeError", <<"throw">>)

\* The call gets as far as new Constraints().
Allocates(obj) ==
    /\ obj.t \in {"dict", "tuple"}
    /\ IF IsFloat
       THEN FloatParses(obj) /\ ~StepBelowEpsilon(FloatStepOf(obj))
       ELSE IntParses(obj)

\* The inputs tried on a cell: every plain object; the tuples and dicts of
\* the cell's own family, those with a step the float cell rejects only with
\* zero bounds; of the other family only the 4-tuples of zeros with any step.
Tried(obj) ==
    \/ obj.t \in {"int", "float", "str"}
    \/ /\ obj.et = (IF IsFloat THEN "float" ELSE "int")
       /\ (IsFloat /\ StepBelowEpsilon(FloatStepOf(obj))) => (obj.min = 0 /\ obj.max = 0)
    \/ /\ obj.t = "tuple" /\ obj.keys = AllKeys
       /\ obj.value = 0 /\ obj.min = 0 /\ obj.max = 0

\* setPyObject(value), dispatched on the cell's class.
SetPyObject ==
    /\ cell.alive /\ ~Crashed
    /\ \E obj \in PyObjs :
        /\ Tried(obj)
        /\ \E junk \in JunkBoolsFor(obj), jlo \in JunkNumsFor(obj), jhi \in JunkNumsFor(obj),
              p \in (IF Allocates(obj) THEN Fresh(heap) ELSE {NullPtr}) :
              Commit("setPyObject", obj,
                   IF IsFloat
                   THEN FloatConstraint_setPyObject(obj, p, junk, jlo, jhi)
                   ELSE IntegerConstraint_setPyObject(obj, p, junk, jlo, jhi))

\* PropertyInteger::setValue / PropertyFloat::setValue (inherited unchanged by
\* the constrained classes): aboutToSetValue(); _lValue = lValue; hasSetValue();
SetValueOutcome(v) == Outcome("ok", cell.cs, v, heap, <<"pre", "val", "post">>)

SetValue ==
    /\ cell.alive /\ ~Crashed
    /\ \E v \in NumVals :
        Commit("setValue", [t |-> "typed", value |-> v], SetValueOutcome(v))

\* boost::math::round of a double (in thousandths): half away from zero.
Round(d) ==
    IF d >= 0
    THEN (d + DblUnit \div 2) \div DblUnit
    ELSE -((-d + DblUnit \div 2) \div DblUnit)

\* verifyPath(path): rejects a path that has a sub-path below the cell.
VerifyPathOk(path) == path = ""

\* The boost::any values handed to setPathValue: type tag and payload. An
\* integral payload is an integer, a floating one a double in thousandths.
HalfVals == {k * DblUnit + DblUnit \div 2 : k \in 0..(MaxVal - 1)}
Anys ==
    [type : {"long", "int", "unsigned long"}, v : Vals]
    \cup [type : {"double", "float", "Quantity"}, v : DVals \cup HalfVals]
    \cup [type : {"bool", "std::string"}, v : {0}]

\* PropertyInteger::setPathValue
Integer_setPathValue(path, value) ==
    IF ~VerifyPathOk(path) THEN Thrown("PathError", <<"throw">>)
    ELSE IF value.type \in {"long", "int"} THEN SetValueOutcome(value.v)
    ELSE IF value.type \in {"double", "float", "Quantity"} THEN SetValueOutcome(Round(value.v))
    ELSE Thrown("bad_cast", <<"throw">>)

\* PropertyFloat::setPathValue
Float_setPathValue(path, value) ==
    IF ~VerifyPathOk(path) THEN Thrown("PathError", <<"throw">>)
    ELSE IF value.type \in {"long", "int", "unsigned long"} THEN SetValueOutcome(ToDouble(value.v))
    ELSE IF value.type \in {"double", "float", "Quantity"} THEN SetValueOutcome(value.v)
    ELSE Thrown("bad_cast", <<"throw">>)

SetPathValue ==
    /\ cell.alive /\ ~Crashed
    /\ \E path \in {"", ".x"}, value \in Anys :
        /\ path = ".x" => value.v = 0 /\ value.type = "long"
        /\ value.type \in {"int", "float", "unsigned long"} => value.v = 0
        /\ IsFloat => value.v \notin HalfVals
        /\ Commit("setPathValue", [t |-> "any", path |-> path, type |-> value.type, value |-> value.v],
                  IF IsFloat THEN Float_setPathValue(path, value)
                             ELSE Integer_setPathValue(path, value))

\* What the XMLReader meets. "ok": the element is there and its attribute
\* parses to v. "noElement": readElement() throws. "noAttribute":
\* getAttributeAsInteger() / getAttributeAsFloat() throws.
Xmls == [st : {"ok"}, v : NumVals] \cup [st : {"noElement", "noAttribute"}, v : {0}]

\* PropertyInteger::Restore / PropertyFloat::Restore:
\* reader.readElement(..); setValue(reader.getAttributeAs..("value"));
RestoreOutcome(xml) ==
    IF xml.st = "ok" THEN SetValueOutcome(xml.v) ELSE Thrown("XMLError", <<"throw">>)

Restore ==
    /\ cell.alive /\ ~Crashed
    /\ \E xml \in Xmls :
        Commit("Restore", [t |-> "xml", st |-> xml.st, value |-> xml.v], RestoreOutcome(xml))

\* The cells handed to Paste: their class and raw value.
FromKinds == {"PropertyInteger", "PropertyPercent", "PropertyFloat", "PropertyPrecision"}

\* PropertyInteger::Paste / PropertyFloat::Paste:
\* aboutToSetValue(); _lValue = dynamic_cast<const PropertyInteger&>(from)._lValue; hasSetValue();
PasteBase == IF IsFloat THEN "PropertyFloat" ELSE "PropertyInteger"
PasteOutcome(from) ==
    IF from.kind \in DerivedFrom(PasteBase)
    THEN Outcome("ok", cell.cs, from.val, heap, <<"pre", "val", "post">>)
    ELSE Thrown("bad_cast", <<"pre", "throw">>)

Paste ==
    /\ cell.alive /\ ~Crashed
    /\ \E k \in FromKinds, v \in NumVals :
        /\ k \notin DerivedFrom(PasteBase) => v = 0
        /\ Commit("Paste", [t |-> "cell", kind |-> k, value |-> v],
                  PasteOutcome([kind |-> k, val |-> v]))

\* PropertyIntegerConstraint::setConstraints / PropertyFloatConstraint::setConstraints
SetConstraintsOutcome(sConstrain, junk) ==
    Outcome("ok", sConstrain, cell.val,
            SetConstraintsHeap(heap, cell.cs, sConstrain, junk),
            IF cell.cs # sConstrain THEN <<"desc">> ELSE <<>>)

\* The pointers a caller has to give: nullptr, the static table of the cell's
\* family, or a pointer an earlier getConstraints() returned (any address
\* new Constraints() has handed out so far).
StaticOf == IF IsFloat THEN PrecisionId ELSE PercentId
KnownPtrs == {NullPtr, StaticOf} \cup {p \in Addrs : heap[p].st # "unalloc"}

SetConstraints ==
    /\ cell.alive /\ ~Crashed
    /\ \E d \in KnownPtrs, junk \in JunkBools :
        Commit("setConstraints", [t |-> "ptr", value |-> d], SetConstraintsOutcome(d, junk))

\* getConstraints(): return _ConstStruct;
GetConstraints ==
    /\ cell.alive /\ ~Crashed
    /\ last' = Call("getConstraints", [t |-> "ptr", value |-> cell.cs], "ok", <<>>)
    /\ UNCHANGED <<cell, heap>>
    /\ OtherThanConstrained

\* ~PropertyIntegerConstraint / ~PropertyFloatConstraint:
\* if (_ConstStruct && _ConstStruct->isDeletable()) delete _ConstStruct;
DestructorHeap(h, cs, junk) ==
    IF cs # NullPtr /\ IsDeletable(h, cs, junk) THEN Delete(h, cs) ELSE h

Destroy ==
    /\ cell.alive /\ ~Crashed
    /\ \E junk \in JunkBools :
        /\ heap' = DestructorHeap(heap, cell.cs, junk)
        /\ cell' = [cell EXCEPT !.alive = FALSE, !.cs = NullPtr, !.val = 0]
        /\ last' = Call("destroy", [t |-> "ptr", value |-> cell.cs], "ok", <<>>)
        /\ OtherThanConstrained

\* ------------------------------------------------------------ construction
\* PropertyInteger() : _lValue = 0; PropertyPercent() : _ConstStruct = &percent;
\* PropertyPrecision() : setConstraints(&PrecisionStandard).
\* PropertyPercent and PropertyPrecision add nothing but their constructor to
\* the constrained class they derive from, which is the class the cell keeps.
ConstrainedBase(kind) ==
    IF kind \in DerivedFrom("PropertyFloat") THEN "PropertyFloatConstraint"
                                             ELSE "PropertyIntegerConstraint"
NewCell(kind) ==
    [kind |-> ConstrainedBase(kind), alive |-> TRUE, val |-> 0,
     cs |-> CASE kind = "PropertyPercent" -> PercentId
              [] kind = "PropertyPrecision" -> PrecisionId
              [] OTHER -> NullPtr]

InitHeap ==
    [p \in DescIds |->
        CASE p = PercentId -> percent
          [] p = PrecisionId -> PrecisionStandard
          [] OTHER -> Unalloc]

Constructed == [op |-> "construct", arg |-> [t |-> "none"], res |-> "ok", ev |-> <<>>]
NoScalar == [kind |-> "none", val |-> 0, isLabel |-> FALSE]
NoDoc == [activeTransaction |-> "", related |-> ""]
NoPair == [kind |-> "none"]
NoMaterialList == [field |-> "none"]
NoXml == [kind |-> "none"]
NoView == [BoundaryType |-> "none"]
NoCell == [kind |-> "none", alive |-> FALSE, val |-> 0, cs |-> NullPtr]

ConstrainedKinds ==
    {"PropertyIntegerConstraint", "PropertyPercent", "PropertyFloatConstraint", "PropertyPrecision"}

Init ==
    /\ \E kind \in ConstrainedKinds : cell = NewCell(kind)
    /\ heap = InitHeap
    /\ last = Constructed
    /\ view = NoView
    /\ scalar = NoScalar
    /\ doc = NoDoc
    /\ pair = NoPair
    /\ mlist = NoMaterialList
    /\ saved = NoXml

Next ==
    \/ SetPyObject
    \/ SetValue
    \/ SetPathValue
    \/ Restore
    \/ Paste
    \/ SetConstraints
    \/ GetConstraints
    \/ Destroy

Spec == Init /\ [][Next]_vars

\* ============================================================ scalar cells
\* One scalar cell of one of the seven classes, and for a string cell that is
\* its object's Label the two things its setValue reaches: the application's
\* active transaction and a related cell that onProposedLabelChange may ask
\* to be rewritten.
ScalarKinds ==
    {"PropertyInteger", "PropertyFloat", "PropertyBool", "PropertyString",
     "PropertyUUID", "PropertyPath", "PropertyColor"}

Strs == {"", "a", "b"}
Uuids == {"u1", "u2"}
Paths == {"", "p", "q"}

\* const char*: a null pointer or a pointer to text.
CStr(text) == [null |-> FALSE, text |-> text]
NullCStr == [null |-> TRUE, text |-> ""]
CStrs(texts) == {NullCStr} \cup {CStr(t) : t \in texts}

\* Base::Color: four float channels r, g, b, a, each held here in 510ths (510
\* is 1.0, 255 is 0.5). The packed value keeps eight bits of each channel,
\* red in the highest byte: getPackedValue rounds channel * 255 to the nearest
\* whole number, setPackedValue divides the byte by 255.
Byte == 256
ChannelOne == 510
Color(r, g, b, a) == <<r, g, b, a>>
Colors == {Color(0, 0, 0, 510), Color(128, 0, 0, 510), Color(0, 510, 255, 0)}
ToByte(channel) == (channel + 1) \div 2
FromByte(byte) == byte * 2
getPackedValue(c) ==
    ((ToByte(c[1]) * Byte + ToByte(c[2])) * Byte + ToByte(c[3])) * Byte + ToByte(c[4])
setPackedValue(rgba) ==
    Color(FromByte(rgba \div (Byte * Byte * Byte)), FromByte((rgba \div (Byte * Byte)) % Byte),
          FromByte((rgba \div Byte) % Byte), FromByte(rgba % Byte))
Packed == {getPackedValue(c) : c \in Colors}

\* What one setValue call did: how it ended, the value it left, the
\* transaction and related cell it left, its events in order.
ScalarOutcome(res, val, txn, related, ev) ==
    [res |-> res, val |-> val, txn |-> txn, related |-> related, ev |-> ev]
Bracketed(v) == ScalarOutcome("ok", v, doc.activeTransaction, doc.related, <<"pre", "val", "post">>)
Returned == ScalarOutcome("ok", scalar.val, doc.activeTransaction, doc.related, <<>>)

ScalarCommit(arg, o) ==
    /\ scalar' = [scalar EXCEPT !.val = o.val]
    /\ doc' = [activeTransaction |-> o.txn, related |-> o.related]
    /\ last' = Call("setValue", arg, o.res, o.ev)
    /\ OtherThanScalar

Arg(ov, v) == [t |-> "cxx", ov |-> ov, v |-> v]

\* PropertyInteger::setValue(long)
PropertyInteger_setValue ==
    /\ scalar.kind = "PropertyInteger"
    /\ \E lValue \in Vals : ScalarCommit(Arg("long", lValue), Bracketed(lValue))

\* PropertyFloat::setValue(double)
PropertyFloat_setValue ==
    /\ scalar.kind = "PropertyFloat"
    /\ \E lValue \in DVals : ScalarCommit(Arg("double", lValue), Bracketed(lValue))

\* PropertyBool::setValue(bool)
PropertyBool_setValue ==
    /\ scalar.kind = "PropertyBool"
    /\ \E lValue \in BOOLEAN : ScalarCommit(Arg("bool", lValue), Bracketed(lValue))

\* PropertyPath::setValue(const std::filesystem::path&) and (const char*)
PropertyPath_setValue ==
    /\ scalar.kind = "PropertyPath"
    /\ \E ov \in {"path", "char*"}, Path \in Paths : ScalarCommit(Arg(ov, Path), Bracketed(Path))

\* PropertyUUID::setValue(const Base::Uuid&), (const char*) and
\* (const std::string&); the second does nothing for a null pointer.
UUID_setValue(ov, id) ==
    IF ov = "char*" /\ id.null THEN Returned ELSE Bracketed(id.text)
PropertyUUID_setValue ==
    /\ scalar.kind = "PropertyUUID"
    /\ \E ov \in {"Uuid", "char*", "string"} :
        \E id \in (IF ov = "char*" THEN CStrs(Uuids) ELSE {CStr(u) : u \in Uuids}) :
            ScalarCommit(Arg(ov, id), UUID_setValue(ov, id))

\* PropertyColor::setValue(const Base::Color&), (uint32_t) and four floats
ColorOf(ov, v) == IF ov = "uint32_t" THEN setPackedValue(v) ELSE v
PropertyColor_setValue ==
    /\ scalar.kind = "PropertyColor"
    /\ \E ov \in {"Color", "uint32_t", "floats"} :
        \E v \in (IF ov = "uint32_t" THEN Packed ELSE Colors) :
            ScalarCommit(Arg(ov, v), Bracketed(ColorOf(ov, v)))

\* What onProposedLabelChange(newValueStr) may do: rewrite the text it was
\* given and hand back changes to other cells. A change is the text to paste
\* into the related cell and whether that Paste goes through.
Change(text, pastes) == [text |-> text, pastes |-> pastes]
Proposals ==
    {[text |-> t, changes |-> c] :
        t \in Strs,
        c \in {<<>>, <<Change("a", TRUE)>>, <<Change("b", FALSE)>>,
               <<Change("a", TRUE), Change("b", TRUE)>>,
               <<Change("a", TRUE), Change("b", FALSE)>>}}
NoProposal(newValue) == [text |-> newValue, changes |-> <<>>]

\* PropertyString::setValue(const char* newValue); the std::string overload
\* passes c_str() to it. explicitTxn is GetApplication().getActiveTransaction().
\* commit: a transaction is opened (and closed) by the cell if the hook handed
\* back changes and GetApplication().getActiveTransaction() is null.
CommitAlways(propChanges, activeTransaction) == propChanges # <<>>
Commits(propChanges, activeTransaction) == propChanges # <<>> /\ activeTransaction = ""

String_setValueAlways(newValue, isLabel, proposal) == Bracketed(newValue.text)
String_setValue(newValue, isLabel, proposal) ==
    IF newValue.null THEN Returned
    ELSE IF scalar.val = newValue.text THEN Returned
    ELSE IF isLabel /\ scalar.val = proposal.text
    THEN ScalarOutcome("ok", scalar.val, doc.activeTransaction, doc.related, <<"propose">>)
    ELSE LET newValueStr == IF isLabel THEN proposal.text ELSE newValue.text
             propChanges == IF isLabel THEN proposal.changes ELSE <<>>
             commit == isLabel /\ Commits(propChanges, doc.activeTransaction)
             opened == IF commit THEN "Change Label" ELSE doc.activeTransaction
             open == (IF isLabel THEN <<"propose">> ELSE <<>>)
                        \o (IF commit THEN <<"open">> ELSE <<>>)
             set == open \o <<"pre", "val", "post">>
             failed == {i \in DOMAIN propChanges : ~propChanges[i].pastes}
             n == IF failed = {} THEN Len(propChanges)
                  ELSE (CHOOSE i \in failed : \A j \in failed : i <= j) - 1
             related == IF n = 0 THEN doc.related ELSE propChanges[n].text
             pastes == set \o [i \in 1..n |-> "paste"]
         IN  IF failed # {}
             THEN ScalarOutcome("bad_cast", newValueStr, opened, related, pastes \o <<"throw">>)
             ELSE ScalarOutcome("ok", newValueStr, IF commit THEN "" ELSE opened, related,
                                pastes \o (IF commit THEN <<"close">> ELSE <<>>))
PropertyString_setValue ==
    /\ scalar.kind = "PropertyString"
    /\ \E ov \in {"char*", "string"} :
        \E newValue \in (IF ov = "char*" THEN CStrs(Strs) ELSE {CStr(t) : t \in Strs}) :
            \E proposal \in (IF scalar.isLabel THEN Proposals ELSE {NoProposal(newValue.text)}) :
                ScalarCommit([t |-> "cxx", ov |-> ov, v |-> newValue, proposal |-> proposal],
                             String_setValue(newValue, scalar.isLabel, proposal))

\* ------------------------------------------------------------------ Paste
\* PropertyPersistentObject holds the type name and a shared pointer to the
\* sub-object of that type (0 for none); PropertyEnumeration holds an
\* Enumeration: the selected index and the labels.
PObjects == {<<"", 0>>, <<"a", 1>>, <<"a", 2>>}
Enums == {[index |-> -1, labels |-> <<>>], [index |-> 0, labels |-> <<"x", "y">>],
          [index |-> 1, labels |-> <<"x", "y">>]}

PasteKinds == ScalarKinds \cup {"PropertyPersistentObject", "PropertyEnumeration"}
SourceKinds ==
    PasteKinds \cup {"PropertyIntegerConstraint", "PropertyPercent",
                     "PropertyFloatConstraint", "PropertyPrecision", "PropertyFont"}

ValuesOf(kind) ==
    CASE kind \in DerivedFrom("PropertyInteger") -> Vals
      [] kind \in DerivedFrom("PropertyFloat") -> DVals
      [] kind = "PropertyBool" -> BOOLEAN
      [] kind \in {"PropertyString", "PropertyFont"} -> Strs
      [] kind = "PropertyPersistentObject" -> PObjects
      [] kind = "PropertyUUID" -> Uuids
      [] kind = "PropertyPath" -> Paths
      [] kind = "PropertyColor" -> Colors
      [] kind = "PropertyEnumeration" -> Enums

\* The cells that can be handed to Paste as `from`.
Sources == UNION {{[kind |-> k, val |-> v] : v \in ValuesOf(k)} : k \in SourceKinds}

\* dynamic_cast<const T&>(from) goes through for T and the classes derived
\* from T, and throws std::bad_cast for every other class.
CastExact(T, from) == from.kind = T
CastOk(T, from) == from.kind \in DerivedFrom(T)

\* The member of `from` that T's Paste reads: _cValue of a string class is
\* the text, which a persistent-object cell keeps next to its sub-object.
MemberOf(T, from) ==
    IF T = "PropertyString" /\ from.kind = "PropertyPersistentObject"
    THEN from.val[1] ELSE from.val

BadCast(ev) == ScalarOutcome("bad_cast", scalar.val, doc.activeTransaction, doc.related, ev)

\* PropertyInteger, PropertyFloat, PropertyBool, PropertyUUID, PropertyPath,
\* PropertyColor: aboutToSetValue(); _v = dynamic_cast<const T&>(from)._v;
\* hasSetValue();
CastInsideBracket(T, from) ==
    IF CastOk(T, from) THEN Bracketed(MemberOf(T, from)) ELSE BadCast(<<"pre", "throw">>)

\* PropertyString::Paste: setValue(dynamic_cast<const PropertyString&>(from)._cValue)
String_Paste(from, isLabel, proposal) ==
    IF CastOk("PropertyString", from)
    THEN String_setValue(CStr(MemberOf("PropertyString", from)), isLabel, proposal)
    ELSE BadCast(<<"throw">>)

\* PropertyPersistentObject::Paste: the bracket only if text or sub-object differ
PersistentObject_PasteAlways(from) ==
    IF CastOk("PropertyPersistentObject", from) THEN Bracketed(from.val) ELSE BadCast(<<"throw">>)
PersistentObject_Paste(from) ==
    IF ~CastOk("PropertyPersistentObject", from) THEN BadCast(<<"throw">>)
    ELSE IF scalar.val[1] # from.val[1] \/ scalar.val[2] # from.val[2]
    THEN Bracketed(from.val)
    ELSE Returned

\* PropertyEnumeration::Paste: cast, then setValue(prop._enum)
Enumeration_Paste(from) ==
    IF CastOk("PropertyEnumeration", from) THEN Bracketed(from.val) ELSE BadCast(<<"throw">>)

PasteCommit(from, proposal, o) ==
    /\ scalar' = [scalar EXCEPT !.val = o.val]
    /\ doc' = [activeTransaction |-> o.txn, related |-> o.related]
    /\ last' = Call("Paste", [t |-> "cell", from |-> from, proposal |-> proposal], o.res, o.ev)
    /\ OtherThanScalar

ScalarPaste ==
    /\ scalar.kind \in PasteKinds
    /\ \E from \in Sources :
        \E proposal \in (IF scalar.isLabel /\ CastOk("PropertyString", from)
                         THEN Proposals ELSE {NoProposal("")}) :
            PasteCommit(from, proposal,
                CASE scalar.kind = "PropertyString" -> String_Paste(from, scalar.isLabel, proposal)
                  [] scalar.kind = "PropertyPersistentObject" -> PersistentObject_Paste(from)
                  [] scalar.kind = "PropertyEnumeration" -> Enumeration_Paste(from)
                  [] OTHER -> CastInsideBracket(scalar.kind, from))

\* A new cell of each class: 0, 0.0, false, empty text, a fresh uuid, an empty
\* path, black. A string cell may be its object's Label, and a transaction
\* may be open already when the calls start.
NewScalar(kind) ==
    CASE kind = "PropertyInteger" -> {0}
      [] kind = "PropertyFloat" -> {0}
      [] kind = "PropertyBool" -> {FALSE}
      [] kind = "PropertyString" -> {""}
      [] kind = "PropertyUUID" -> Uuids
      [] kind = "PropertyPath" -> {""}
      [] kind = "PropertyColor" -> {Color(0, 0, 0, ChannelOne)}
      [] kind = "PropertyPersistentObject" -> {<<"", 0>>}
      [] kind = "PropertyEnumeration" -> {[index |-> -1, labels |-> <<>>]}
InitScalar ==
    /\ \E kind \in PasteKinds, isLabel \in BOOLEAN :
        /\ isLabel => kind = "PropertyString"
        /\ \E v \in NewScalar(kind) : scalar = [kind |-> kind, val |-> v, isLabel |-> isLabel]
    /\ \E txn \in {"", "Edit"} :
        /\ txn # "" => scalar.isLabel
        /\ doc = [activeTransaction |-> txn, related |-> ""]
    /\ last = Constructed
    /\ view = NoView
    /\ cell = NoCell
    /\ heap = InitHeap
    /\ pair = NoPair
    /\ mlist = NoMaterialList
    /\ saved = NoXml

NextScalar ==
    \/ PropertyInteger_setValue
    \/ PropertyFloat_setValue
    \/ PropertyBool_setValue
    \/ PropertyString_setValue
    \/ PropertyUUID_setValue
    \/ PropertyPath_setValue
    \/ PropertyColor_setValue
    \/ ScalarPaste

SpecScalar == InitScalar /\ [][NextScalar]_vars

\* ==================================================================== Copy
\* A cell, the cell its Copy() returned, and the Base::Persistence objects
\* that the _pObject shared pointers of persistent-object cells point at.
MaxLen == 2
CopyKinds == {"PropertyInteger", "PropertyIntegerList", "PropertyPersistentObject"}
ObjIds == 1..3
NoObject == [type |-> "", data |-> 0]
Lists == UNION {[1..n -> Vals] : n \in 0..MaxLen}
TypeNames == {"", "a", "b", "bad"}

DefaultOf(kind) ==
    CASE kind = "PropertyInteger" -> 0
      [] kind = "PropertyIntegerList" -> <<>>
      [] kind = "PropertyPersistentObject" -> <<"", 0>>

\* Base::Type::getTypeIfDerivedFrom(type, Persistence::getClassTypeId()).isBad()
TypeIsBad(type) == type = "bad"

\* createInstanceByName hands out an object that no cell points at yet.
NewObjectId(others) == CHOOSE o \in ObjIds : o \notin others /\ \A q \in ObjIds : q < o => q \in others

Of(target) == IF target = "copy" THEN pair.copy ELSE pair.orig
Other(target) == IF target = "copy" THEN pair.orig ELSE pair.copy

\* What a call on one of the two cells left: how it ended, the cell's value,
\* the sub-objects, the events.
CopyOutcome(res, val, objects, ev) == [res |-> res, val |-> val, objects |-> objects, ev |-> ev]

\* PropertyPersistentObject::setValue(const char* type)
PersistentObject_setValue(v, objects, other, type) ==
    IF type # "" /\ TypeIsBad(type) THEN CopyOutcome("TypeError", v, objects, <<"throw">>)
    ELSE IF type # "" /\ v[2] # 0 /\ objects[v[2]].type = type THEN CopyOutcome("ok", v, objects, <<>>)
    ELSE IF type = "" THEN CopyOutcome("ok", <<type, 0>>, objects, <<"pre", "val", "post">>)
    ELSE LET o == NewObjectId({other[2]} \ {0})
         IN  CopyOutcome("ok", <<type, o>>, [objects EXCEPT ![o] = [type |-> type, data |-> 0]],
                         <<"pre", "val", "post">>)

\* PropertyPersistentObject::Restore: the string part through setValue, then
\* _pObject->Restore(reader) if there is a sub-object.
PersistentObject_Restore(v, objects, other, xml) ==
    LET set == PersistentObject_setValue(v, objects, other, xml.type)
    IN  IF set.res # "ok" THEN set
        ELSE IF set.val[2] = 0 THEN set
        ELSE CopyOutcome("ok", set.val,
                         [set.objects EXCEPT ![set.val[2]].data = xml.data],
                         set.ev \o <<"sub">>)

CopyCommit(op, target, arg, o) ==
    /\ pair' = [pair EXCEPT ![target] = o.val, !.objects = o.objects]
    /\ last' = Call(op, [t |-> "cell", target |-> target, v |-> arg], o.res, o.ev)
    /\ OtherThanPair

Targets == IF pair.hasCopy THEN {"orig", "copy"} ELSE {"orig"}

\* Copy(): p = new T(); p->member = member; return p;
CopyShallow(kind, v) == v
PropertyCopy ==
    /\ pair.kind \in CopyKinds
    /\ pair' = [pair EXCEPT !.copy = CopyShallow(pair.kind, pair.orig), !.hasCopy = TRUE]
    /\ last' = Call("Copy", [t |-> "none"], "ok", <<>>)
    /\ OtherThanPair

\* setValue on either cell: PropertyInteger::setValue,
\* PropertyPersistentObject::setValue
PairSetValue ==
    /\ pair.kind \in {"PropertyInteger", "PropertyPersistentObject"}
    /\ \E target \in Targets :
        IF pair.kind = "PropertyInteger"
        THEN \E lValue \in Vals :
                CopyCommit("setValue", target, lValue,
                           CopyOutcome("ok", lValue, pair.objects, <<"pre", "val", "post">>))
        ELSE \E type \in TypeNames :
                CopyCommit("setValue", target, type,
                           PersistentObject_setValue(Of(target), pair.objects, Other(target), type))

\* Restore on either cell: PropertyInteger::Restore,
\* PropertyIntegerList::Restore, PropertyPersistentObject::Restore
PairRestore ==
    /\ pair.kind \in CopyKinds
    /\ \E target \in Targets :
        CASE pair.kind = "PropertyInteger" ->
               \E v \in Vals :
                  CopyCommit("Restore", target, v,
                             CopyOutcome("ok", v, pair.objects, <<"pre", "val", "post">>))
          [] pair.kind = "PropertyIntegerList" ->
               \E values \in Lists :
                  CopyCommit("Restore", target, values,
                             CopyOutcome("ok", values, pair.objects, <<"pre", "val", "post">>))
          [] pair.kind = "PropertyPersistentObject" ->
               \E xml \in [type : TypeNames, data : Vals] :
                  CopyCommit("Restore", target, xml,
                             PersistentObject_Restore(Of(target), pair.objects, Other(target), xml))

InitCopy ==
    /\ \E kind \in CopyKinds :
        pair = [kind |-> kind, orig |-> DefaultOf(kind), copy |-> DefaultOf(kind),
                hasCopy |-> FALSE, objects |-> [o \in ObjIds |-> NoObject]]
    /\ last = Constructed
    /\ view = NoView
    /\ cell = NoCell
    /\ heap = InitHeap
    /\ scalar = NoScalar
    /\ doc = NoDoc
    /\ mlist = NoMaterialList
    /\ saved = NoXml

NextCopy ==
    \/ PropertyCopy
    \/ PairSetValue
    \/ PairRestore

SpecCopy == InitCopy /\ [][NextCopy]_vars

\* =========================================================== material list
\* App::Material: four colors, two floats (held in thousandths) and three
\* strings. PropertyMaterialList keeps a std::vector<Material>.
MaxMats == 2
ColorFields == {"ambientColor", "diffuseColor", "specularColor", "emissiveColor"}
FloatFields == {"shininess", "transparency"}
Fields == ColorFields \cup FloatFields

Material(amb, dif, spe, emi, shi, tra, image, imagePath, uuid) ==
    [ambientColor |-> amb, diffuseColor |-> dif, specularColor |-> spe, emissiveColor |-> emi,
     shininess |-> shi, transparency |-> tra, image |-> image, imagePath |-> imagePath,
     uuid |-> uuid]

\* Material(): the default material, with empty strings.
DefaultMaterial ==
    Material(Color(0, 0, 0, ChannelOne), Color(0, 0, 0, ChannelOne), Color(0, 0, 0, ChannelOne),
             Color(0, 0, 0, ChannelOne), 900, 0, "", "", "")
\* A material that differs from the default in every field; its diffuse color
\* has a channel (255 = 0.5) that is no whole number of 255ths.
OtherMaterial ==
    Material(Color(128, 0, 0, ChannelOne), Color(0, ChannelOne, 255, 0), Color(64, 64, 0, ChannelOne),
             Color(0, 0, 128, ChannelOne), 500, 250, "i", "", "u1")
Mats == {DefaultMaterial, OtherMaterial}
MatLists(maxLen) == UNION {[1..n -> Mats] : n \in 0..maxLen}

\* The value a field setter is given, per overload.
FieldColor == Color(0, 254, 0, ChannelOne)
FieldFloat == 750
FieldGiven(field) == IF field \in ColorFields THEN FieldColor ELSE FieldFloat
FieldOverloads(field) == IF field \in ColorFields THEN {"Color", "floats", "uint32_t"} ELSE {"float"}
FieldArg(field, ov) == IF ov = "uint32_t" THEN getPackedValue(FieldColor) ELSE FieldGiven(field)

\* PropertyListsT::setSize(newSize) and setSize(newSize, def): resize
SetSize(list, newSize, def) == [i \in 1..newSize |-> IF i <= Len(list) THEN list[i] ELSE def]

\* setMinimumSizeOne(): if (size < 1) setSize(1);
setMinimumSizeOne(list) == IF Len(list) < 1 THEN SetSize(list, 1, DefaultMaterial) ELSE list

\* verifyIndex(index): throws unless -1 <= index <= size
verifyIndexBelow(list, index) == ~(index < -1)
verifyIndex(list, index) == ~(index < -1 \/ index > Len(list))

\* resizeByOneIfNeeded(index): index -1 or size appends one element and is
\* the index of that element.
resizeNever(list, index) == [index |-> IF index = -1 THEN Len(list) - 1 ELSE index, list |-> list]
resizeByOneIfNeeded(list, index) ==
    IF index = -1 \/ index = Len(list)
    THEN [index |-> Len(list), list |-> SetSize(list, Len(list) + 1, DefaultMaterial)]
    ELSE [index |-> index, list |-> list]

MatOutcome(res, list, ev) == [res |-> res, list |-> list, ev |-> ev]
MatSet(list) == MatOutcome("ok", list, <<"pre", "val", "post">>)
MatThrown(res) == MatOutcome(res, mlist.list, <<"throw">>)

MatCommit(op, arg, o) ==
    /\ mlist' = [mlist EXCEPT !.list = o.list]
    /\ last' = Call(op, arg, o.res, o.ev)
    /\ OtherThanMaterialList

\* setValues(newValues): PropertyListsT::setValues for a non-empty vector,
\* else the bracket around setSize(1).
MaterialList_setValues(newValues) ==
    IF newValues # <<>> THEN MatSet(newValues) ELSE MatSet(SetSize(mlist.list, 1, DefaultMaterial))

SetValues ==
    /\ mlist.field \in Fields
    /\ \E newValues \in MatLists(MaxMats) :
        MatCommit("setValues", [t |-> "list", v |-> newValues], MaterialList_setValues(newValues))

\* setValue() and setValue(const Material& mat): setSize(1), every element = mat
SetValueAll ==
    /\ mlist.field \in Fields
    /\ \E mat \in Mats :
        MatCommit("setValue", [t |-> "mat", v |-> mat],
                  MatSet([i \in 1..1 |-> mat]))

\* The indexes tried: from below -1 to above the size.
Indexes == -2..(Len(mlist.list) + 1)
Grows(index) == index = -1 \/ index = Len(mlist.list)

\* setValue(int index, const Material& mat)
SetValueAt ==
    /\ mlist.field \in Fields
    /\ \E index \in Indexes, mat \in Mats :
        /\ Grows(index) => Len(mlist.list) < MaxMats
        /\ MatCommit("setValueAt", [t |-> "mat", index |-> index, v |-> mat],
                IF ~verifyIndex(mlist.list, index) THEN MatThrown("RuntimeError")
                ELSE LET r == resizeByOneIfNeeded(mlist.list, index)
                     IN  MatSet([r.list EXCEPT ![r.index + 1] = mat]))

\* setAmbientColor ... setTransparency without index: every element, after
\* setMinimumSizeOne()
SetField ==
    /\ mlist.field \in Fields
    /\ \E ov \in FieldOverloads(mlist.field) :
        LET v == FieldArg(mlist.field, ov)
            l == setMinimumSizeOne(mlist.list)
        IN  MatCommit("setField", [t |-> "field", field |-> mlist.field, ov |-> ov, v |-> v],
                      MatSet([i \in DOMAIN l |-> [l[i] EXCEPT ![mlist.field] = ColorOf(ov, v)]]))

\* setAmbientColor ... setTransparency with an index
SetFieldAt ==
    /\ mlist.field \in Fields
    /\ \E index \in Indexes, ov \in FieldOverloads(mlist.field) :
        /\ Grows(index) => Len(mlist.list) < MaxMats
        /\ LET v == FieldArg(mlist.field, ov)
           IN  MatCommit("setFieldAt",
                   [t |-> "field", index |-> index, field |-> mlist.field, ov |-> ov, v |-> v],
                   IF ~verifyIndex(mlist.list, index) THEN MatThrown("RuntimeError")
                   ELSE LET r == resizeByOneIfNeeded(mlist.list, index)
                        IN  MatSet([r.list EXCEPT ![r.index + 1][mlist.field] = ColorOf(ov, v)]))

\* setDiffuseColors(colors) and setTransparencies(transparencies):
\* setSize(size of the vector, _lValueList[0]), then one value per element.
\* _lValueList[0] of an empty list is whatever lies there.
SetFields ==
    /\ mlist.field \in {"diffuseColor", "transparency"}
    /\ \E n \in 0..MaxMats, first \in (IF mlist.list = <<>> THEN Mats ELSE {mlist.list[1]}) :
        LET given == [i \in 1..n |-> FieldGiven(mlist.field)]
            l == SetSize(mlist.list, n, first)
        IN  MatCommit("setFields", [t |-> "fields", field |-> mlist.field, v |-> given],
                      MatSet([i \in 1..n |-> [l[i] EXCEPT ![mlist.field] = given[i]]]))

\* Paste(from): the cast comes first, then setValues() of the other list.
\* The other cell is a material list in any state this one can be in, or a
\* cell of another kind.
MaterialList_Paste ==
    /\ mlist.field \in Fields
    /\ \E from \in [kind : {"PropertyMaterialList"}, v : MatLists(MaxMats)]
                   \cup [kind : {"PropertyColorList"}, v : {<<>>}] :
        MatCommit("Paste", [t |-> "from", kind |-> from.kind, v |-> from.v],
                  IF from.kind # "PropertyMaterialList" THEN MatThrown("bad_cast")
                  ELSE MaterialList_setValues(from.v))

\* PropertyMaterialList(): setMinimumSizeOne(); formatVersion starts as Version_0.
Version_0 == 0
Version_2 == 2
Version_3 == 3
NewMaterialList(field) ==
    [field |-> field, list |-> setMinimumSizeOne(<<>>), formatVersion |-> Version_0,
     pending |-> FALSE]

InitMaterialList ==
    /\ \E field \in Fields :
        mlist = NewMaterialList(field)
    /\ last = Constructed
    /\ view = NoView
    /\ cell = NoCell
    /\ heap = InitHeap
    /\ scalar = NoScalar
    /\ doc = NoDoc
    /\ pair = NoPair
    /\ saved = NoXml

NextMaterialList ==
    \/ SetValues
    \/ SetValueAll
    \/ SetValueAt
    \/ SetField
    \/ SetFieldAt
    \/ SetFields
    \/ MaterialList_Paste

SpecMaterialList == InitMaterialList /\ [][NextMaterialList]_vars

\* ============================================================ cells as XML
RECURSIVE Concat(_)
Concat(seqs) == IF seqs = <<>> THEN <<>> ELSE Head(seqs) \o Concat(Tail(seqs))

\* Text is a sequence of characters. operator<<(long) writes a number in
\* decimal; getAttributeAsInteger reads one.
Digits == <<"0", "1", "2", "3", "4", "5", "6", "7", "8", "9">>
RECURSIVE Decimal(_)
Decimal(n) ==
    IF n < 0 THEN <<"-">> \o Decimal(0 - n)
    ELSE IF n < Len(Digits) THEN <<Digits[n + 1]>>
    ELSE Decimal(n \div Len(Digits)) \o <<Digits[(n % Len(Digits)) + 1]>>

DigitValue(c) == CHOOSE d \in 0..(Len(Digits) - 1) : Digits[d + 1] = c
RECURSIVE ParseDigits(_, _)
ParseDigits(text, acc) ==
    IF text = <<>> THEN acc
    ELSE ParseDigits(Tail(text), acc * Len(Digits) + DigitValue(Head(text)))
getAttributeAsInteger(text) ==
    IF text # <<>> /\ Head(text) = "-" THEN 0 - ParseDigits(Tail(text), 0)
    ELSE ParseDigits(text, 0)

\* encodeAttribute(str): the characters XML reserves become entities, which
\* the parser turns back into the characters when it hands out an attribute.
Entity(c) ==
    CASE c = "&" -> <<"&", "a", "m", "p", ";">>
      [] c = "<" -> <<"&", "l", "t", ";">>
      [] c = "\"" -> <<"&", "q", "u", "o", "t", ";">>
      [] OTHER -> <<c>>
encodeAttribute(text) == Concat([i \in DOMAIN text |-> Entity(text[i])])

EntityEnd(text) == CHOOSE i \in DOMAIN text : text[i] = ";" /\ \A j \in 1..(i - 1) : text[j] # ";"
EntityChar(name) ==
    CASE name = <<"&", "a", "m", "p", ";">> -> "&"
      [] name = <<"&", "l", "t", ";">> -> "<"
      [] name = <<"&", "q", "u", "o", "t", ";">> -> "\""
RECURSIVE getAttribute(_)
getAttribute(raw) ==
    IF raw = <<>> THEN <<>>
    ELSE IF Head(raw) = "&"
    THEN <<EntityChar(SubSeq(raw, 1, EntityEnd(raw)))>>
            \o getAttribute(SubSeq(raw, EntityEnd(raw) + 1, Len(raw)))
    ELSE <<Head(raw)>> \o getAttribute(Tail(raw))

\* boost::to_string(bitset, str) writes the highest bit first;
\* boost::dynamic_bitset<>(str) takes the last character as bit 0.
to_stringForward(bits) == [i \in DOMAIN bits |-> IF bits[i] THEN "1" ELSE "0"]
to_string(bits) == [i \in DOMAIN bits |-> IF bits[Len(bits) + 1 - i] THEN "1" ELSE "0"]
dynamic_bitset(str) == [i \in DOMAIN str |-> str[Len(str) + 1 - i] = "1"]

\* The elements of the text: <tag a="..." b="..."> (start), the same closed
\* at once (empty) and </tag> (end). a and b hold the attribute values as
\* written.
Element(k, tag, a, b) == [k |-> k, tag |-> tag, a |-> a, b |-> b]
StartElement(tag, a) == Element("start", tag, a, <<>>)
EmptyElement(tag, a, b) == Element("empty", tag, a, b)
EndElement(tag) == Element("end", tag, <<>>, <<>>)

\* The members of a std::set<long> in the order the loop visits them.
RECURSIVE Ascending(_)
Ascending(S) ==
    IF S = {} THEN <<>>
    ELSE LET least == CHOOSE x \in S : \A y \in S : x <= y
         IN  <<least>> \o Ascending(S \ {least})

\* The values the cells are given.
MaxCount == 2
TextInts == {0 - 12, 0, 7, 10}
Texts == <<<<>>, <<"&", "a", "m", "p", ";">>, <<"a", "<", "\"">>>>
TextSet == {Texts[i] : i \in DOMAIN Texts}
SeqsOf(S) == UNION {[1..n -> S] : n \in 0..MaxCount}
\* A std::map<std::string, std::string>: its keys in order, and a value each.
Keys == SubSeq(Texts, 2, 3)
Maps == UNION {[D -> {Texts[1], Texts[3]}] : D \in SUBSET {Keys[i] : i \in DOMAIN Keys}}
InOrder(map) == SelectSeq(Keys, LAMBDA key : key \in DOMAIN map)

XmlKinds ==
    {"PropertyInteger", "PropertyBool", "PropertyIntegerList", "PropertyIntegerSet",
     "PropertyStringList", "PropertyMap", "PropertyBoolList"}
Counted == {"PropertyIntegerList", "PropertyIntegerSet", "PropertyStringList", "PropertyMap"}
XmlValues(kind) ==
    CASE kind = "PropertyInteger" -> TextInts
      [] kind = "PropertyBool" -> BOOLEAN
      [] kind = "PropertyIntegerList" -> SeqsOf(TextInts \ {0})
      [] kind = "PropertyIntegerSet" -> SUBSET (TextInts \ {0})
      [] kind = "PropertyStringList" -> SeqsOf(TextSet)
      [] kind = "PropertyMap" -> Maps
      [] kind = "PropertyBoolList" -> SeqsOf(BOOLEAN)
XmlDefault(kind) ==
    CASE kind = "PropertyInteger" -> 0
      [] kind = "PropertyBool" -> FALSE
      [] kind = "PropertyIntegerSet" -> {}
      [] OTHER -> <<>>

\* Save(writer), per kind: the text written
Children(tag, values) == [i \in DOMAIN values |-> EmptyElement(tag, values[i], <<>>)]
CountedElement(tag, children) ==
    <<StartElement(tag, Decimal(Len(children)))>> \o children \o <<EndElement(tag)>>
SaveText(kind, v) ==
    CASE kind = "PropertyInteger" -> <<EmptyElement("Integer", Decimal(v), <<>>)>>
      [] kind = "PropertyBool" ->
            <<EmptyElement("Bool", IF v THEN <<"t", "r", "u", "e">> ELSE <<"f", "a", "l", "s", "e">>,
                           <<>>)>>
      [] kind = "PropertyIntegerList" ->
            CountedElement("IntegerList", Children("I", [i \in DOMAIN v |-> Decimal(v[i])]))
      [] kind = "PropertyIntegerSet" ->
            LET members == Ascending(v)
            IN  CountedElement("IntegerSet",
                               Children("I", [i \in DOMAIN members |-> Decimal(members[i])]))
      [] kind = "PropertyStringList" ->
            CountedElement("StringList",
                           Children("String", [i \in DOMAIN v |-> encodeAttribute(v[i])]))
      [] kind = "PropertyMap" ->
            LET keys == InOrder(v)
            IN  CountedElement("Map",
                    [i \in DOMAIN keys |->
                        EmptyElement("Item", encodeAttribute(keys[i]), encodeAttribute(v[keys[i]]))])
      [] kind = "PropertyBoolList" -> <<EmptyElement("BoolList", to_string(v), <<>>)>>

\* Restore(reader), per kind: the value handed to setValue / setValues.
\* readElement takes the next element of the text.
RestoreValue(kind, file) ==
    LET count == getAttributeAsInteger(getAttribute(file[1].a))
        child(i) == file[1 + i]
    IN  CASE kind = "PropertyInteger" -> getAttributeAsInteger(getAttribute(file[1].a))
          [] kind = "PropertyBool" -> getAttribute(file[1].a) = <<"t", "r", "u", "e">>
          [] kind = "PropertyIntegerList" ->
                [i \in 1..count |-> getAttributeAsInteger(getAttribute(child(i).a))]
          [] kind = "PropertyIntegerSet" ->
                {getAttributeAsInteger(getAttribute(child(i).a)) : i \in 1..count}
          [] kind = "PropertyStringList" -> [i \in 1..count |-> getAttribute(child(i).a)]
          [] kind = "PropertyMap" ->
                [key \in {getAttribute(child(i).a) : i \in 1..count} |->
                    LET latest == CHOOSE i \in 1..count :
                                    /\ getAttribute(child(i).a) = key
                                    /\ \A j \in (i + 1)..count : getAttribute(child(j).a) # key
                    IN  getAttribute(child(latest).b)]
          [] kind = "PropertyBoolList" -> dynamic_bitset(getAttribute(file[1].a))

NoFile == <<>>
XmlCommit(op, arg, x) ==
    /\ saved' = x
    /\ last' = Call(op, arg, "ok", IF op = "Save" THEN <<>> ELSE <<"pre", "val", "post">>)
    /\ OtherThanXml

\* setValue(v) / setValues(v) of the cell
Xml_setValue ==
    /\ saved.kind \in XmlKinds
    /\ \E v \in XmlValues(saved.kind) :
        XmlCommit("setValue", [t |-> saved.kind], [saved EXCEPT !.orig = v])

\* Save(writer) of the cell
Xml_Save ==
    /\ saved.kind \in XmlKinds
    /\ XmlCommit("Save", [t |-> saved.kind],
                 [saved EXCEPT !.file = SaveText(saved.kind, saved.orig)])

\* Restore(reader) of a fresh cell of the kind, on the text Save wrote
Xml_Restore ==
    /\ saved.kind \in XmlKinds
    /\ saved.file # NoFile
    /\ XmlCommit("Restore", [t |-> saved.kind],
                 [saved EXCEPT !.fresh = RestoreValue(saved.kind, saved.file)])

InitXml ==
    /\ \E kind \in XmlKinds :
        saved = [kind |-> kind, orig |-> XmlDefault(kind), file |-> NoFile, fresh |-> XmlDefault(kind)]
    /\ last = Constructed
    /\ view = NoView
    /\ cell = NoCell
    /\ heap = InitHeap
    /\ scalar = NoScalar
    /\ doc = NoDoc
    /\ pair = NoPair
    /\ mlist = NoMaterialList

NextXml ==
    \/ Xml_setValue
    \/ Xml_Save
    \/ Xml_Restore

SpecXml == InitXml /\ [][NextXml]_vars

\* ================================================= material list, persisted
\* Base::OutputStream / Base::InputStream: the file is a sequence of items, a
\* 32 bit word, a float or a run of characters.
U32(n) == [k |-> "u32", u |-> n, s |-> ""]
F32(x) == [k |-> "f32", u |-> x, s |-> ""]
Chars(text) == [k |-> "chars", u |-> Len(text), s |-> text]

\* writeString(str, value): the size, then that many characters
writeString(value) ==
    <<U32(Len(value))>> \o (IF Len(value) > 0 THEN <<Chars(value)>> ELSE <<>>)

\* The six fixed fields of one element, colors packed.
FixedFields(mat) ==
    <<U32(getPackedValue(mat.ambientColor)), U32(getPackedValue(mat.diffuseColor)),
      U32(getPackedValue(mat.specularColor)), U32(getPackedValue(mat.emissiveColor)),
      F32(mat.shininess), F32(mat.transparency)>>

\* SaveDocFile(writer)
SaveDocFile(list) ==
    <<U32(Len(list))>>
        \o Concat([i \in DOMAIN list |-> FixedFields(list[i])])
        \o Concat([i \in DOMAIN list |->
                writeString(list[i].image) \o writeString(list[i].imagePath)
                    \o writeString(list[i].uuid)])

\* The files of earlier versions: the count and the fixed fields (versions 0
\* and 2), the same after a negative version word (development builds).
DevVersion == -1
SaveDocFileV0(list) == <<U32(Len(list))>> \o Concat([i \in DOMAIN list |-> FixedFields(list[i])])
SaveDocFileDev(list) == <<U32(DevVersion)>> \o SaveDocFileV0(list)
Formats == {"V0", "dev", "V3"}
Written(format, list) ==
    CASE format = "V3" -> SaveDocFile(list)
      [] format = "V0" -> SaveDocFileV0(list)
      [] format = "dev" -> SaveDocFileDev(list)

\* str >> value at item p of the file; at the end of the file the variable
\* keeps the 0 it was initialised with.
Word(file, p) == IF p <= Len(file) THEN file[p].u ELSE 0

\* readString(str, value) at item p: the size, then that many characters
readString(file, p) ==
    LET uCt == Word(file, p)
    IN  IF uCt = 0 \/ p + 1 > Len(file) THEN [value |-> "", next |-> p + 1]
        ELSE [value |-> file[p + 1].s, next |-> p + 2]

\* The three strings of each of count elements, read from item p on.
RECURSIVE ReadStrings(_, _, _)
ReadStrings(file, p, count) ==
    IF count = 0 THEN <<>>
    ELSE LET image == readString(file, p)
             imagePath == readString(file, image.next)
             uuid == readString(file, imagePath.next)
         IN  <<[image |-> image.value, imagePath |-> imagePath.value, uuid |-> uuid.value]>>
                 \o ReadStrings(file, uuid.next, count - 1)

\* The fixed fields of element i (from 1) of a run of records starting at item p.
ReadFixed(file, p, i) ==
    LET q == p + 6 * (i - 1)
    IN  Material(setPackedValue(Word(file, q)), setPackedValue(Word(file, q + 1)),
                 setPackedValue(Word(file, q + 2)), setPackedValue(Word(file, q + 3)),
                 Word(file, q + 4), Word(file, q + 5), "", "", "")

\* RestoreDocFileV0(count, reader), the records starting at item p
RestoreDocFileV0(count, file, p) == [i \in 1..count |-> ReadFixed(file, p, i)]

\* RestoreDocFileV3(reader)
RestoreDocFileV3NoStrings(file) == RestoreDocFileV0(Word(file, 1), file, 2)
RestoreDocFileV3(file) ==
    LET count == Word(file, 1)
        strings == ReadStrings(file, 2 + 6 * count, count)
    IN  [i \in 1..count |->
            [ReadFixed(file, 2, i) EXCEPT !.image = strings[i].image,
                                          !.imagePath = strings[i].imagePath,
                                          !.uuid = strings[i].uuid]]

\* RestoreDocFile(reader): the values handed to setValues
RestoreDocFileLatest(formatVersion, file) == RestoreDocFileV3(file)
RestoreDocFile(formatVersion, file) ==
    IF formatVersion = Version_2 THEN RestoreDocFileV0(Word(file, 1), file, 2)
    ELSE IF formatVersion = Version_3 THEN RestoreDocFileV3(file)
    ELSE LET version == Word(file, 1)
         IN  IF version < 0 THEN RestoreDocFileV0(Word(file, 2), file, 3)
             ELSE RestoreDocFileV0(version, file, 2)

\* The attributes of a <MaterialList> element: file absent, empty or a name;
\* version absent (no text) or a number in text.
FileAttributes == {"none", "", "MaterialList"}
VersionAttributes == {<<>>} \cup {Decimal(n) : n \in Version_0..Version_3}

\* Restore(reader): records the version and registers the file
MaterialList_Restore ==
    /\ mlist.field = "persisted"
    /\ \E file \in FileAttributes, version \in VersionAttributes :
        /\ mlist' = [mlist EXCEPT
                !.formatVersion = IF file # "none" /\ version # <<>>
                                  THEN getAttributeAsInteger(version) ELSE @,
                !.pending = file \notin {"none", ""}]
        /\ last' = Call("Restore", [t |-> "xml", file |-> file, version |-> version], "ok", <<>>)
    /\ OtherThanMaterialList

\* RestoreDocFile(reader), called for a registered file. The file holds a
\* list in one of the three layouts; a development-build file is read under
\* a recorded version that looks for its version word.
MaterialList_RestoreDocFile ==
    /\ mlist.field = "persisted"
    /\ mlist.pending
    /\ \E format \in Formats, source \in MatLists(MaxMats) :
        /\ format = "dev" => mlist.formatVersion \notin {Version_2, Version_3}
        /\ LET o == MaterialList_setValues(
                        RestoreDocFile(mlist.formatVersion, Written(format, source)))
           IN  /\ mlist' = [mlist EXCEPT !.list = o.list, !.pending = FALSE]
               /\ last' = Call("RestoreDocFile", [t |-> "file", format |-> format, v |-> source],
                               o.res, o.ev)
    /\ OtherThanMaterialList

InitPersisted ==
    /\ mlist = NewMaterialList("persisted")
    /\ last = Constructed
    /\ view = NoView
    /\ cell = NoCell
    /\ heap = InitHeap
    /\ scalar = NoScalar
    /\ doc = NoDoc
    /\ pair = NoPair
    /\ saved = NoXml

NextPersisted ==
    \/ MaterialList_Restore
    \/ MaterialList_RestoreDocFile

SpecPersisted == InitPersisted /\ [][NextPersisted]_vars

\* ============================================================== bulk lists
\* PropertyFloatList, PropertyColorList and PropertyMaterialList write their
\* values into a file of their own unless the writer is forced to XML.
BulkKinds == {"PropertyFloatList", "PropertyColorList", "PropertyMaterialList"}
BulkTag(kind) ==
    CASE kind = "PropertyFloatList" -> "FloatList"
      [] kind = "PropertyColorList" -> "ColorList"
      [] kind = "PropertyMaterialList" -> "MaterialList"
BulkFloats == {0, 1001}
BulkValues(kind) ==
    CASE kind = "PropertyFloatList" -> SeqsOf(BulkFloats)
      [] kind = "PropertyColorList" -> SeqsOf({Color(128, 0, 0, ChannelOne), Color(0, ChannelOne, 255, 0)})
      [] kind = "PropertyMaterialList" -> MatLists(MaxCount) \ {<<>>}
BulkDefault(kind) == IF kind = "PropertyMaterialList" THEN setMinimumSizeOne(<<>>) ELSE <<>>

\* An element with the name of its first attribute ("" if it has none).
NamedElement(k, tag, name, a, b) == [k |-> k, tag |-> tag, name |-> name, a |-> a, b |-> b]
\* writer.addFile(getName(), this): the name of the file, "" for a list
\* without elements.
FileName(kind, v) == IF Len(v) # 0 THEN <<"f">> ELSE <<>>

\* Save(writer): the elements written
BulkSave(kind, v, forceXML) ==
    IF kind = "PropertyFloatList" /\ forceXML
    THEN <<NamedElement("start", "FloatList", "count", Decimal(Len(v)), <<>>)>>
            \o [i \in DOMAIN v |-> NamedElement("empty", "F", "v", Decimal(v[i]), <<>>)]
            \o <<NamedElement("end", "FloatList", "", <<>>, <<>>)>>
    ELSE IF forceXML THEN <<>>
    ELSE <<NamedElement("empty", BulkTag(kind), "file", FileName(kind, v),
                        IF kind = "PropertyMaterialList" THEN Decimal(Version_3) ELSE <<>>)>>

\* static_cast<float>(double): the value loses its low digits.
FloatCast(x) == x - (x % 8)

\* SaveDocFile(writer)
BulkSaveDocFile(kind, v, single) ==
    CASE kind = "PropertyFloatList" ->
            <<U32(Len(v))>> \o [i \in DOMAIN v |-> F32(IF single THEN FloatCast(v[i]) ELSE v[i])]
      [] kind = "PropertyColorList" ->
            <<U32(Len(v))>> \o [i \in DOMAIN v |-> U32(getPackedValue(v[i]))]
      [] kind = "PropertyMaterialList" -> SaveDocFile(v)

\* Restore(reader): readElement(tag) takes the next element of that name and
\* fails at the end of the text; getAttribute fails for an attribute the
\* element does not have.
BulkRestore(kind, text) ==
    IF text = <<>> \/ Head(text).tag # BulkTag(kind)
    THEN [res |-> "XMLParseException", file |-> <<>>, version |-> <<>>]
    ELSE IF Head(text).name # "file"
    THEN [res |-> IF kind = "PropertyFloatList" THEN "XMLAttributeError" ELSE "ok",
          file |-> <<>>, version |-> <<>>]
    ELSE [res |-> "ok", file |-> getAttribute(Head(text).a), version |-> Head(text).b]

\* RestoreDocFile(reader): the values handed to setValues
BulkRestoreDocFile(kind, file, formatVersion) ==
    CASE kind = "PropertyFloatList" -> [i \in 1..Word(file, 1) |-> Word(file, 1 + i)]
      [] kind = "PropertyColorList" -> [i \in 1..Word(file, 1) |-> setPackedValue(Word(file, 1 + i))]
      [] kind = "PropertyMaterialList" -> RestoreDocFile(formatVersion, file)

BulkCommit(op, arg, res, ev, x) ==
    /\ saved' = x
    /\ last' = Call(op, arg, res, ev)
    /\ OtherThanXml

\* setValues(v) of the list
Bulk_setValues ==
    /\ saved.kind \in BulkKinds
    /\ \E v \in BulkValues(saved.kind) :
        BulkCommit("setValues", [t |-> saved.kind], "ok", <<"pre", "val", "post">>,
                   [saved EXCEPT !.orig = v])

\* Save(writer) of the list, and SaveDocFile for the file it registered
Bulk_Save ==
    /\ saved.kind \in BulkKinds
    /\ \E forceXML \in BOOLEAN :
        BulkCommit("Save", [t |-> saved.kind, forceXML |-> forceXML], "ok", <<>>,
                   [saved EXCEPT !.written = TRUE, !.forceXML = forceXML,
                                 !.file = BulkSave(saved.kind, saved.orig, forceXML),
                                 !.docfile =
                                    IF forceXML \/ saved.orig = <<>> THEN <<>>
                                    ELSE BulkSaveDocFile(saved.kind, saved.orig, saved.single)])

\* Restore(reader) of a fresh list cell on the text Save wrote
Bulk_Restore ==
    /\ saved.kind \in BulkKinds
    /\ saved.written
    /\ LET o == BulkRestore(saved.kind, saved.file)
       IN  BulkCommit("Restore", [t |-> saved.kind], o.res, <<>>,
                      [saved EXCEPT !.fresh = BulkDefault(saved.kind),
                                    !.pending = o.file # <<>>,
                                    !.formatVersion = IF o.version # <<>>
                                                      THEN getAttributeAsInteger(o.version)
                                                      ELSE Version_0])

\* RestoreDocFile(reader) of that cell, for the file Restore registered
Bulk_RestoreDocFile ==
    /\ saved.kind \in BulkKinds
    /\ saved.pending
    /\ LET values == BulkRestoreDocFile(saved.kind, saved.docfile, saved.formatVersion)
       IN  BulkCommit("RestoreDocFile", [t |-> saved.kind], "ok", <<"pre", "val", "post">>,
                      [saved EXCEPT !.pending = FALSE,
                                    !.fresh = IF saved.kind = "PropertyMaterialList" /\ values = <<>>
                                              THEN SetSize(saved.fresh, 1, DefaultMaterial)
                                              ELSE values])

InitBulk ==
    /\ \E kind \in BulkKinds, single \in BOOLEAN :
        /\ single => kind = "PropertyFloatList"
        /\ saved = [kind |-> kind, single |-> single, orig |-> BulkDefault(kind),
                    written |-> FALSE, forceXML |-> FALSE, file |-> <<>>, docfile |-> <<>>,
                    fresh |-> BulkDefault(kind), pending |-> FALSE, formatVersion |-> Version_0]
    /\ last = Constructed
    /\ view = NoView
    /\ cell = NoCell
    /\ heap = InitHeap
    /\ scalar = NoScalar
    /\ doc = NoDoc
    /\ pair = NoPair
    /\ mlist = NoMaterialList

NextBulk ==
    \/ Bulk_setValues
    \/ Bulk_Save
    \/ Bulk_Restore
    \/ Bulk_RestoreDocFile

SpecBulk == InitBulk /\ [][NextBulk]_vars

\* ============================================= scalar cells, dynamic values
\* The Python objects handed to setPyObject, by type. PyLong_Check holds for
\* an int and for a bool, which PyLong_AsLong reads as 0 or 1.
PyTypes == {"int", "bool", "float", "str", "NoneType"}
PyLong_Check(t) == t \in {"int", "bool"}
PyFloat_Check(t) == t = "float"
PyValues(t) ==
    CASE t = "int" -> Vals
      [] t = "bool" -> {0, 1}
      [] t = "float" -> DVals \cup HalfVals
      [] t = "str" -> {"x", "z"}
      [] t = "NoneType" -> {0}

DynKinds ==
    {"PropertyInteger", "PropertyFloat", "PropertyBool", "PropertyString", "PropertyEnumeration"}

TypeError == ScalarOutcome("TypeError", scalar.val, doc.activeTransaction, doc.related, <<"throw">>)

\* PropertyInteger::setPyObject
PropertyInteger_setPyObjectRounding(t, v) ==
    IF PyLong_Check(t) THEN Bracketed(v)
    ELSE IF PyFloat_Check(t) THEN Bracketed(Round(v)) ELSE TypeError
PropertyInteger_setPyObject(t, v) ==
    IF PyLong_Check(t) THEN Bracketed(v) ELSE TypeError

\* PropertyFloat::setPyObject
PropertyFloat_setPyObject(t, v) ==
    IF PyFloat_Check(t) THEN Bracketed(v)
    ELSE IF PyLong_Check(t) THEN Bracketed(ToDouble(v)) ELSE TypeError

DynCommit(op, arg, o) ==
    /\ scalar' = [scalar EXCEPT !.val = o.val]
    /\ last' = Call(op, arg, o.res, o.ev)
    /\ UNCHANGED doc
    /\ OtherThanScalar

\* setPyObject(value) of the integer and the float cell
Number_setPyObject ==
    /\ scalar.kind \in {"PropertyInteger", "PropertyFloat"}
    /\ \E t \in PyTypes : \E v \in PyValues(t) :
        DynCommit("setPyObject", [t |-> t, v |-> v],
                  IF scalar.kind = "PropertyInteger" THEN PropertyInteger_setPyObject(t, v)
                  ELSE PropertyFloat_setPyObject(t, v))

\* ---------------------------------------------------------- the enumeration
\* App::Enumeration: the labels and the index of the selected one.
Enum(index, labels) == [index |-> index, labels |-> labels]
countItems(e) == Len(e.labels)
isValid(e) == e.index >= 0 /\ e.index < countItems(e)
contains(e, str) == \E i \in DOMAIN e.labels : e.labels[i] = str
IndexOf(e, str) == CHOOSE i \in 0..(countItems(e) - 1) : e.labels[i + 1] = str
\* Enumeration::setValue(const char*): the index of the label, 0 if there is none
Enum_setValue(e, str) == Enum(IF contains(e, str) THEN IndexOf(e, str) ELSE 0, e.labels)
\* Enumeration::setValue(long, checkRange): TRUE if it throws
OutOfRange(e, value) == ~(value >= 0 /\ value < countItems(e))

\* Enumeration::setEnums(values): the selected label is kept if it is among
\* the new ones
Enum_setEnums(e, values) ==
    LET set == Enum(IF e.index < 0 THEN 0 ELSE e.index, values)
    IN  IF isValid(e) THEN Enum_setValue(set, e.labels[e.index + 1]) ELSE set

\* Base::ValueError, "'str' is not part of the enumeration in <cell>" or
\* "Out of range"
ValueError(what, e, ev) == ScalarOutcome(what, e, doc.activeTransaction, doc.related, ev)
NotPartOf == "ValueError: not part of the enumeration"
OutOfRangeError == "ValueError: Out of range"

\* The sequences handed to setPyObject: a list of strings, or a 2-tuple of a
\* list of strings and an index.
SeqTypes == {"list", "tuple"}
SeqValues(t) ==
    IF t = "list" THEN {[labels |-> <<"y", "z">>, idx |-> -1]}
    ELSE {[labels |-> <<"y", "z">>, idx |-> i] : i \in {0, 2}}

\* PropertyEnumeration::setPyObject. An int is dropped when the selection is
\* not valid, and set with the range checked when it is.
Enumeration_setPyObjectUnchecked(t, v) ==
    IF PyLong_Check(t) THEN Bracketed(Enum(v, scalar.val.labels))
    ELSE IF t = "str" THEN Bracketed(Enum_setValue(scalar.val, v))
    ELSE TypeError
Enumeration_setPyObject(t, v) ==
    IF PyLong_Check(t)
    THEN IF ~isValid(scalar.val) THEN Returned
         ELSE IF OutOfRange(scalar.val, v)
         THEN ValueError(OutOfRangeError, scalar.val, <<"pre", "throw">>)
         ELSE Bracketed(Enum(v, scalar.val.labels))
    ELSE IF t = "str"
    THEN IF contains(scalar.val, v) THEN Bracketed(Enum_setValue(scalar.val, v))
         ELSE ValueError(NotPartOf, scalar.val, <<"throw">>)
    ELSE IF t \in SeqTypes
    THEN LET set == Enum_setEnums(scalar.val, v.labels)
         IN  IF v.idx >= 0 /\ OutOfRange(set, v.idx)
             THEN ValueError(OutOfRangeError, set, <<"pre", "throw">>)
             ELSE Bracketed(IF v.idx >= 0 THEN Enum(v.idx, set.labels) ELSE set)
    ELSE TypeError

\* setPyObject(value) of the enumeration cell
Selection_setPyObject ==
    /\ scalar.kind = "PropertyEnumeration"
    /\ \E t \in PyTypes \cup SeqTypes :
        \E v \in IF t \in SeqTypes THEN SeqValues(t) ELSE PyValues(t) :
            DynCommit("setPyObject", [t |-> t, v |-> v], Enumeration_setPyObject(t, v))

\* getValueAsString() of the enumeration cell
RuntimeError == ScalarOutcome("RuntimeError", scalar.val, doc.activeTransaction, doc.related, <<"throw">>)
Enumeration_getValueAsStringUnchecked ==
    /\ scalar.kind = "PropertyEnumeration"
    /\ DynCommit("getValueAsString", [t |-> "none"], Returned)
Enumeration_getValueAsString ==
    /\ scalar.kind = "PropertyEnumeration"
    /\ DynCommit("getValueAsString", [t |-> "none"],
                 IF ~isValid(scalar.val) THEN RuntimeError
                 ELSE ScalarOutcome(scalar.val.labels[scalar.val.index + 1], scalar.val,
                                    doc.activeTransaction, doc.related, <<>>))

\* The documents handed to Restore of the enumeration cell. head: whether the
\* Integer element and its value attribute are there; val: the stored index;
\* custom: no CustomEnum attribute, a CustomEnumList of two labels, or a
\* CustomEnum attribute with the document ending before the list.
EnumFiles ==
    [head : {"ok", "no element", "no value"}, val : {-1, 0, 2},
     custom : {"none", "list", "broken"}]
CustomLabels == <<"y", "z">>

\* PropertyEnumeration::Restore
Enumeration_Restore(file) ==
    IF file.head = "no element"
    THEN ScalarOutcome("XMLParseException", scalar.val, doc.activeTransaction, doc.related,
                       <<"throw">>)
    ELSE IF file.head = "no value"
    THEN ScalarOutcome("XMLAttributeError", scalar.val, doc.activeTransaction, doc.related,
                       <<"throw">>)
    ELSE IF file.custom = "broken"
    THEN ScalarOutcome("XMLParseException", scalar.val, doc.activeTransaction, doc.related,
                       <<"pre", "throw">>)
    ELSE LET e == IF file.custom = "list" THEN Enum_setEnums(scalar.val, CustomLabels)
                  ELSE scalar.val
             val == IF file.val < 0 THEN e.index ELSE file.val
         IN  Bracketed(Enum(val, e.labels))
Selection_Restore ==
    /\ scalar.kind = "PropertyEnumeration"
    /\ \E file \in EnumFiles :
        DynCommit("Restore", [t |-> "file", file |-> file], Enumeration_Restore(file))

\* ------------------------------------------------------------ setPathValue
\* The boost::any values handed to setPathValue, by type. A floating value
\* is in thousandths; a PyObject is None.
AnyTypes ==
    {"long", "int", "short", "unsigned long", "double", "float", "Quantity", "bool",
     "std::string", "PyObject"}
Integral == {"long", "int", "short", "unsigned long"}
Floating == {"double", "float", "Quantity"}
AnyValues(type) ==
    CASE type \in Integral -> {0, 1, 2}
      [] type \in Floating -> {0, DblUnit + DblUnit \div 2}
      [] type = "bool" -> {0, 1}
      [] type = "std::string" -> {"x", "z"}
      [] type = "PyObject" -> {"None"}

\* std::to_string(long), std::to_string(double) and Quantity::getUserString()
to_stringDouble(d) == IF d = 0 THEN "0.000000" ELSE "1.500000"
getUserString(d) == IF d = 0 THEN "0.0" ELSE "1.5"
\* double to long, for setValue(long)
Truncated(d) == d \div DblUnit

PathError == ScalarOutcome("PathError", scalar.val, doc.activeTransaction, doc.related, <<"throw">>)

\* setPathValue(path, value) of the integer, float, bool, string and
\* enumeration cell
Scalar_setPathValueCoercing(kind, path, type, v) == Bracketed(scalar.val)
Scalar_setPathValue(kind, path, type, v) ==
    IF kind # "PropertyEnumeration" /\ ~VerifyPathOk(path) THEN PathError
    ELSE CASE kind = "PropertyInteger" ->
                IF type \in {"long", "int"} THEN Bracketed(v)
                ELSE IF type \in Floating THEN Bracketed(Round(v))
                ELSE BadCast(<<"throw">>)
           [] kind = "PropertyFloat" ->
                IF type \in {"long", "unsigned long", "int"} THEN Bracketed(ToDouble(v))
                ELSE IF type \in Floating THEN Bracketed(v)
                ELSE BadCast(<<"throw">>)
           [] kind = "PropertyBool" ->
                IF type \in {"bool", "int", "long", "Quantity"} THEN Bracketed(v # 0)
                ELSE IF type \in {"double", "float"} THEN Bracketed(Round(v) # 0)
                ELSE BadCast(<<"throw">>)
           [] kind = "PropertyString" ->
                IF type = "bool" THEN Bracketed(IF v # 0 THEN "True" ELSE "False")
                ELSE IF type \in {"int", "long"} THEN Bracketed(Digits[v + 1])
                ELSE IF type \in {"double", "float"} THEN Bracketed(to_stringDouble(v))
                ELSE IF type = "Quantity" THEN Bracketed(getUserString(v))
                ELSE IF type = "std::string" THEN Bracketed(v)
                ELSE Bracketed(v)
           [] kind = "PropertyEnumeration" ->
                IF type \in {"int", "long", "short"} THEN Bracketed(Enum(v, scalar.val.labels))
                ELSE IF type \in {"double", "float"}
                THEN Bracketed(Enum(Truncated(v), scalar.val.labels))
                ELSE IF type = "std::string" THEN Bracketed(Enum_setValue(scalar.val, v))
                ELSE Enumeration_setPyObject(
                        CASE type = "bool" -> "bool" [] type = "Quantity" -> "Quantity"
                          [] OTHER -> "NoneType", v)

\* The value types whose way through pyObjectFromAny is known: a string cell
\* is given a PyObject directly, an enumeration a bool, a Quantity or a
\* PyObject.
Dynamic_setPathValue ==
    /\ scalar.kind \in DynKinds
    /\ \E path \in {"", ".x"}, type \in AnyTypes :
        /\ path = ".x" => type = "long"
        /\ scalar.kind \in {"PropertyString", "PropertyEnumeration"} =>
                type \notin {"unsigned long"} \cup (IF scalar.kind = "PropertyString" THEN {"short"} ELSE {})
        /\ \E v \in AnyValues(type) :
            DynCommit("setPathValue", [t |-> "any", path |-> path, type |-> type, v |-> v],
                      Scalar_setPathValue(scalar.kind, path, type, v))

InitDynamic ==
    /\ \E kind \in DynKinds :
        \E v \in NewScalar(kind) : scalar = [kind |-> kind, val |-> v, isLabel |-> FALSE]
    /\ doc = [activeTransaction |-> "", related |-> ""]
    /\ last = Constructed
    /\ view = NoView
    /\ cell = NoCell
    /\ heap = InitHeap
    /\ pair = NoPair
    /\ mlist = NoMaterialList
    /\ saved = NoXml

NextDynamic ==
    \/ Number_setPyObject
    \/ Dynamic_setPathValue
    \/ Selection_setPyObject
    \/ Enumeration_getValueAsString
    \/ Selection_Restore

SpecDynamic == InitDynamic /\ [][NextDynamic]_vars

\* ========================================================= Restore, failing
\* A text Save wrote, damaged: cut after its first n elements, or with the
\* count attribute one more than the children.
Damages(file) ==
    {[how |-> "cut", at |-> n] : n \in 0..(Len(file) - 1)} \cup {[how |-> "count", at |-> 0]}
Damaged(file, d) ==
    IF d.how = "cut" THEN SubSeq(file, 1, d.at)
    ELSE [file EXCEPT ![1].a = Decimal(getAttributeAsInteger(getAttribute(file[1].a)) + 1)]

\* readElement(tag), count times readElement(child), readEndElement(tag): each
\* finds its element before the text ends
ReadsThrough(file) ==
    IF file = <<>> THEN FALSE
    ELSE LET count == getAttributeAsInteger(getAttribute(file[1].a))
         IN  /\ Len(file) >= count + 2
             /\ \A i \in 1..count : file[1 + i].k = "empty"
             /\ file[count + 2].k = "end"

\* Restore(reader) of the integer list, integer set, string list and map
\* cell: the reader calls, then setValues(values)
List_RestoreBracketFirst(kind, file, prior) ==
    IF ReadsThrough(file)
    THEN [res |-> "ok", fresh |-> RestoreValue(kind, file), ev |-> <<"pre", "val", "post">>]
    ELSE [res |-> "XMLParseException", fresh |-> XmlDefault(kind), ev |-> <<"pre", "throw">>]
List_Restore(kind, file, prior) ==
    IF ReadsThrough(file)
    THEN [res |-> "ok", fresh |-> RestoreValue(kind, file), ev |-> <<"pre", "val", "post">>]
    ELSE [res |-> "XMLParseException", fresh |-> prior, ev |-> <<"throw">>]

Xml_RestoreDamaged ==
    /\ saved.kind \in Counted
    /\ saved.file # NoFile
    /\ \E d \in Damages(saved.file) :
        LET o == List_Restore(saved.kind, Damaged(saved.file, d), saved.fresh)
        IN  /\ saved' = [saved EXCEPT !.fresh = o.fresh]
            /\ last' = Call("Restore", [t |-> saved.kind, damage |-> d], o.res, o.ev)
            /\ OtherThanXml

\* The PropertyMaterial element handed to Restore: whether it is there, which
\* of its attributes it has.
RequiredAttributes ==
    <<"ambientColor", "diffuseColor", "specularColor", "emissiveColor", "shininess",
      "transparency">>
OptionalAttributes == {"image", "imagePath", "uuid"}
MaterialElements ==
    [element : BOOLEAN, has : SUBSET Fields, strings : {{}, OptionalAttributes}]
AttributeOf(name) ==
    IF name \in ColorFields THEN setPackedValue(getPackedValue(OtherMaterial[name]))
    ELSE IF name \in FloatFields THEN FloatCast(OtherMaterial[name])
    ELSE OtherMaterial[name]

\* PropertyMaterial::Restore
Material_Restore(file, _cMat) ==
    IF ~file.element THEN [res |-> "XMLParseException", fresh |-> _cMat, ev |-> <<"throw">>]
    ELSE LET missing == {i \in DOMAIN RequiredAttributes : RequiredAttributes[i] \notin file.has}
             read == IF missing = {} THEN Len(RequiredAttributes)
                     ELSE (CHOOSE i \in missing : \A j \in missing : i <= j) - 1
             set == {RequiredAttributes[i] : i \in 1..read} \cup
                        (IF missing = {} THEN file.strings ELSE {})
         IN  [res |-> IF missing = {} THEN "ok" ELSE "XMLAttributeError",
              fresh |-> [name \in DOMAIN _cMat |->
                            IF name \in set THEN AttributeOf(name) ELSE _cMat[name]],
              ev |-> IF missing = {} THEN <<"pre", "val", "post">> ELSE <<"pre", "throw">>]
Xml_RestoreMaterial ==
    /\ saved.kind = "PropertyMaterial"
    /\ \E file \in MaterialElements :
        LET o == Material_Restore(file, saved.fresh)
        IN  /\ saved' = [saved EXCEPT !.fresh = o.fresh]
            /\ last' = Call("Restore", [t |-> saved.kind, file |-> file], o.res, o.ev)
            /\ OtherThanXml

RestoreKinds == Counted \cup {"PropertyEnumeration", "PropertyMaterial"}
InitRestore ==
    /\ \E kind \in RestoreKinds :
        /\ saved = IF kind \in Counted
                   THEN [kind |-> kind, orig |-> XmlDefault(kind), file |-> NoFile,
                         fresh |-> XmlDefault(kind)]
                   ELSE IF kind = "PropertyMaterial"
                   THEN [kind |-> kind, orig |-> DefaultMaterial, file |-> NoFile,
                         fresh |-> DefaultMaterial]
                   ELSE NoXml
        /\ IF kind = "PropertyEnumeration"
           THEN \E e \in Enums : scalar = [kind |-> kind, val |-> e, isLabel |-> FALSE]
           ELSE scalar = NoScalar
    /\ last = Constructed
    /\ view = NoView
    /\ cell = NoCell
    /\ heap = InitHeap
    /\ doc = NoDoc
    /\ pair = NoPair
    /\ mlist = NoMaterialList

NextRestore ==
    \/ Xml_setValue
    \/ Xml_Save
    \/ Xml_Restore
    \/ Xml_RestoreDamaged
    \/ Xml_RestoreMaterial
    \/ Selection_Restore

SpecRestore == InitRestore /\ [][NextRestore]_vars

\* ===================================================== fluid boundary view
\* ViewProviderFemConstraintFluidBoundary: the constraint's BoundaryType,
\* the sizes of its Points and Normals, whether its DirectionVector is zero,
\* and the view's diffuse color and the children of pShapeSep, a glyph each.
MaxPoints == 2
BoundaryTypes == {"wall", "interface", "freestream", "inlet", "outlet"}
Directions == {"zero", "set"}
Glyph(kind, dir) == [kind |-> kind, dir |-> dir]

DiffuseColorOf(boundaryType) ==
    CASE boundaryType = "wall" -> <<0, 1, 1>>
      [] boundaryType = "interface" -> <<0, 1, 0>>
      [] boundaryType = "freestream" -> <<1, 1, 0>>
      [] boundaryType = "inlet" -> <<1, 0, 0>>
      [] OTHER -> <<0, 0, 1>>

\* The children the DirectionVector branch reaches: getChild(idx) for every
\* point, taken as the separator of an arrow
Reached(v) == 1..v.Points
ArrowAt(v, i) == i <= Len(v.pShapeSep) /\ v.pShapeSep[i].kind = "arrow"

\* updateData(prop) on the constraint v: the outcomes. Reading a child that
\* is not there, or a fixed glyph as an arrow, is undefined behaviour: the
\* call crashes or goes on with the children it can update.
updateData(prop, v) ==
    LET colored == IF prop = "BoundaryType"
                   THEN [v EXCEPT !.ShapeAppearance = DiffuseColorOf(v.BoundaryType)] ELSE v
    IN  IF v.BoundaryType \in {"inlet", "outlet"}
        THEN IF prop = "Points"
             THEN LET dir == IF v.DirectionVector = "zero" THEN "normal" ELSE "DirectionVector"
                  IN  {[view |-> [colored EXCEPT
                                    !.pShapeSep = [i \in 1..v.Points |-> Glyph("arrow", dir)]],
                        res |-> "ok"]}
             ELSE IF prop = "DirectionVector"
             THEN LET dir == IF v.DirectionVector = "zero"
                             THEN IF v.BoundaryType = "inlet" THEN "-normal" ELSE "normal"
                             ELSE "DirectionVector"
                      updated == [colored EXCEPT
                                    !.pShapeSep = [i \in DOMAIN v.pShapeSep |->
                                        IF i \in Reached(v) /\ ArrowAt(v, i)
                                        THEN Glyph("arrow", dir) ELSE v.pShapeSep[i]]]
                  IN  IF \A i \in Reached(v) : ArrowAt(v, i)
                      THEN {[view |-> updated, res |-> "ok"]}
                      ELSE {[view |-> updated, res |-> "ok"], [view |-> updated, res |-> "crash"]}
             ELSE {[view |-> colored, res |-> "ok"]}
        ELSE IF prop = "Points" /\ v.Points = v.Normals
             THEN {[view |-> [colored EXCEPT
                                !.pShapeSep = [i \in 1..v.Points |-> Glyph("fixed", "n")]],
                    res |-> "ok"]}
             ELSE {[view |-> colored, res |-> "ok"]}

\* A property of the constraint is set and the view is notified.
Notify(prop, v) ==
    /\ last.res # "crash"
    /\ \E o \in updateData(prop, v) :
        /\ view' = o.view
        /\ last' = Call("updateData", [t |-> "prop", prop |-> prop], o.res, <<>>)
    /\ OtherThanView
View_BoundaryType ==
    /\ view.BoundaryType # "none"
    /\ \E boundaryType \in BoundaryTypes :
        Notify("BoundaryType", [view EXCEPT !.BoundaryType = boundaryType])
View_Points ==
    /\ view.BoundaryType # "none"
    /\ \E n \in 0..MaxPoints : Notify("Points", [view EXCEPT !.Points = n])
View_Normals ==
    /\ view.BoundaryType # "none"
    /\ \E n \in 0..MaxPoints : Notify("Normals", [view EXCEPT !.Normals = n])
View_DirectionVector ==
    /\ view.BoundaryType # "none"
    /\ \E d \in Directions : Notify("DirectionVector", [view EXCEPT !.DirectionVector = d])

InitView ==
    /\ view = [BoundaryType |-> "wall", Points |-> 0, Normals |-> 0, DirectionVector |-> "zero",
               ShapeAppearance |-> DiffuseColorOf("wall"), pShapeSep |-> <<>>]
    /\ last = Constructed
    /\ cell = NoCell
    /\ heap = InitHeap
    /\ scalar = NoScalar
    /\ doc = NoDoc
    /\ pair = NoPair
    /\ mlist = NoMaterialList
    /\ saved = NoXml

NextView ==
    \/ View_BoundaryType
    \/ View_Points
    \/ View_Normals
    \/ View_DirectionVector

SpecView == InitView /\ [][NextView]_vars

\* ================================================================ claims
Count(ev, e) == Cardinality({i \in DOMAIN ev : ev[i] = e})
OnePair(ev) ==
    /\ Count(ev, "pre") = 1 /\ Count(ev, "post") = 1
    /\ \A i, j \in DOMAIN ev : (ev[i] = "pre" /\ ev[j] = "post") => i < j

\* The cell has a descriptor whose record is there to be read.
HasDescriptor == cell.alive /\ cell.cs # NullPtr /\ heap[cell.cs].st \in {"live", "static"}
Lo == heap[cell.cs].LowerBound
Hi == heap[cell.cs].UpperBound

\* v is clamp(x, lo, hi) as the claims define it: x if lo <= x <= hi, lo if
\* x < lo, hi if x > hi. Where lo > hi makes two of the cases apply at once
\* (hi < x < lo) the definition names no single value and nothing is required.
IsClamp(v, x, lo, hi) ==
    /\ (lo <= x /\ x <= hi) => v = x
    /\ (x < lo /\ ~(x > hi)) => v = lo
    /\ (x > hi /\ ~(x < lo)) => v = hi

\* The number a Python number is for the cell: a long for the integer cell, a
\* double for the float cell.
NumberFor(et, n) == IF IsFloat THEN (IF et = "int" THEN n * DblUnit ELSE n) ELSE n

\* The last call was setPyObject with a plain number of a type the cell takes.
PlainNumberCall ==
    /\ last.op = "setPyObject"
    /\ last.arg.t \in (IF IsFloat THEN {"int", "float"} ELSE {"int"})

\* C1: on a constrained integer or float cell with a descriptor [lo, hi]
\* installed, setPyObject(x) with a plain number x raises no error, fires
\* exactly one pre-hook/post-hook pair and leaves getValue() = clamp(x, lo, hi).
C1_PlainNumberIsClamped ==
    (PlainNumberCall /\ HasDescriptor) =>
        /\ last.res = "ok"
        /\ OnePair(last.ev)
        /\ IsClamp(cell.val, NumberFor(last.arg.t, last.arg.value), Lo, Hi)

C1_Witness ==
    /\ PlainNumberCall /\ HasDescriptor /\ IsFloat /\ last.arg.t = "int"
    /\ cell.cs \in Addrs /\ Lo <= Hi
    /\ last.arg.value * DblUnit > Hi
    /\ cell.val = Hi

\* C2 as claimed: in every reachable state of a constrained cell with a
\* descriptor [lo, hi] installed, lo <= getValue() <= hi, whichever operation
\* assigned the value last.
C2_AlwaysWithinBounds ==
    (HasDescriptor /\ Lo <= Hi) => (Lo <= cell.val /\ cell.val <= Hi)

\* C2 as amended: only setPyObject clamps. Right after a setPyObject call that
\* returned normally on a cell with a descriptor installed, the value lies in
\* [lo, hi]; when the descriptor has lo > hi it is one of the two bounds.
C2_WithinBoundsAfterSetPyObject ==
    (last.op = "setPyObject" /\ last.res = "ok" /\ HasDescriptor) =>
        \/ Lo <= cell.val /\ cell.val <= Hi
        \/ Lo > Hi /\ cell.val \in {Lo, Hi}

C2_Witness ==
    /\ last.op = "setPyObject" /\ last.res = "ok" /\ HasDescriptor
    /\ last.arg.t = "int" /\ ~IsFloat
    /\ last.arg.value < Lo /\ cell.val = Lo /\ Lo < Hi

\* The last call was setPyObject with a tuple (value, min, max, step) or a
\* dict with key value and optional min, max, step that the cell can read.
WellFormed(obj) ==
    /\ obj.t \in {"tuple", "dict"}
    /\ "value" \in obj.keys
    /\ obj.t = "tuple" => obj.keys = AllKeys
    /\ ~IsFloat => obj.et = "int"
GivenMin(obj) ==
    IF "min" \in obj.keys THEN NumberFor(obj.et, obj.min)
    ELSE IF IsFloat THEN DblLowest ELSE IntLowest
GivenMax(obj) ==
    IF "max" \in obj.keys THEN NumberFor(obj.et, obj.max)
    ELSE IF IsFloat THEN DblMax ELSE IntMax
GivenStep(obj) ==
    IF "step" \in obj.keys THEN NumberFor(obj.et, obj.step)
    ELSE IF IsFloat THEN DblUnit ELSE 1

\* C3: setPyObject with a tuple (value, min, max, step) or a dict installs a
\* new owned (deletable) descriptor with LowerBound = min, UpperBound = max and,
\* on the integer cell, StepSize = max(1, step) (defaults lowest int, max int,
\* 1), and sets the value to value clamped into [min, max], firing one
\* pre/post pair. On the float cell this is for a step the cell accepts.
C3_TupleInstallsDescriptor ==
    [][ (/\ last'.op = "setPyObject"
         /\ WellFormed(last'.arg)
         /\ IsFloat => GivenStep(last'.arg) > 0)
        => LET obj == last'.arg
               d == cell'.cs
           IN  /\ last'.res = "ok"
               /\ d \in Addrs /\ heap[d].st # "live"
               /\ heap'[d].st = "live" /\ heap'[d].deletable
               /\ heap'[d].LowerBound = GivenMin(obj)
               /\ heap'[d].UpperBound = GivenMax(obj)
               /\ heap'[d].StepSize =
                    (IF IsFloat THEN GivenStep(obj)
                     ELSE IF GivenStep(obj) > 1 THEN GivenStep(obj) ELSE 1)
               /\ IsClamp(cell'.val, NumberFor(obj.et, obj.value), GivenMin(obj), GivenMax(obj))
               /\ OnePair(last'.ev) ]_vars

C3_Witness ==
    /\ last.op = "setPyObject" /\ last.res = "ok" /\ ~IsFloat
    /\ last.arg.t = "tuple" /\ last.arg.step = 0 /\ last.arg.value > last.arg.max
    /\ last.arg.min <= last.arg.max
    /\ HasDescriptor /\ cell.cs \in Addrs /\ heap[cell.cs].StepSize = 1
    /\ cell.val = last.arg.max

\* C4 as claimed: after setPyObject with a tuple or dict, for arbitrary min and
\* max, the active descriptor has LowerBound <= UpperBound and the value lies
\* in [LowerBound, UpperBound].
C4_LowerNotAboveUpper ==
    (last.op = "setPyObject" /\ last.arg.t \in {"tuple", "dict"} /\ last.res = "ok" /\ HasDescriptor)
        => (Lo <= Hi /\ Lo <= cell.val /\ cell.val <= Hi)

\* C5: on a constrained float cell, setPyObject with a tuple or dict whose step
\* is not greater than zero fails with a value error before anything changes:
\* descriptor, value and hook counts are as before the call.
C5_BadStepRejectedFirst ==
    [][ (/\ last'.op = "setPyObject"
         /\ IsFloat
         /\ WellFormed(last'.arg)
         /\ GivenStep(last'.arg) <= 0)
        => (/\ last'.res = "ValueError"
            /\ cell' = cell
            /\ heap' = heap
            /\ Count(last'.ev, "pre") = 0 /\ Count(last'.ev, "post") = 0) ]_vars

C5_Witness ==
    /\ last.op = "setPyObject" /\ last.res = "ValueError" /\ IsFloat
    /\ last.arg.t = "dict" /\ last.arg.step = 0 /\ last.arg.value # cell.val
    /\ HasDescriptor /\ cell.cs \in Addrs

\* C6: setConstraints(d) makes d the active descriptor and frees the previously
\* active one if and only if that one was owned (deletable) and is not d; the
\* shared static tables percent and PrecisionStandard are never freed or
\* modified by any call.
C6_SetConstraintsFreesOwnedOnly ==
    [][ /\ (last'.op = "setConstraints" /\ ~Dangling)
           => LET d == last'.arg.value
                  old == cell.cs
                  owned == old # NullPtr /\ heap[old].deletable
              IN  /\ cell'.cs = d
                  /\ \A p \in DescIds :
                        IF p = old /\ owned /\ old # d
                        THEN heap'[p].st = "freed"
                        ELSE heap'[p] = heap[p]
        /\ heap'[PercentId] = percent
        /\ heap'[PrecisionId] = PrecisionStandard ]_vars

C6_Witness ==
    /\ last.op = "setConstraints" /\ last.arg.value = PercentId
    /\ cell.alive /\ cell.cs = PercentId
    /\ heap[1].st = "freed" /\ heap[PercentId] = percent

\* C7 as claimed: no owned descriptor is freed twice and no live cell's active
\* descriptor has been freed.
C7_FreedExactlyOnce == ~Crashed /\ ~(cell.alive /\ Dangling)

\* C8 as claimed: each change to the value or to the active descriptor happens
\* after the call's pre-hook and before its post-hook.
InBracket(ev, i) ==
    /\ \E j \in 1..(i - 1) : ev[j] = "pre" /\ \A k \in (j + 1)..(i - 1) : ev[k] # "post"
    /\ \E j \in (i + 1)..Len(ev) : ev[j] = "post"
C8_ChangesInsideBracket ==
    last.op \in {"setValue", "setPyObject", "setPathValue", "Restore", "Paste"} =>
        \A i \in DOMAIN last.ev : last.ev[i] \in {"val", "desc"} => InBracket(last.ev, i)

\* C9 as claimed: on every exit of every mutator, normal or by failure, the
\* pre-hook calls of that call equal its post-hook calls.
C9_HooksInPairs == Count(last.ev, "pre") = Count(last.ev, "post")

\* The last call was setValue on a scalar cell, given a value and not a null
\* pointer.
GaveValue(arg) == ~(scalar.kind \in {"PropertyString", "PropertyUUID"} /\ arg.v.null)

\* val is the value v that the call was given.
IsGiven(arg, val) ==
    CASE scalar.kind \in {"PropertyString", "PropertyUUID"} -> val = arg.v.text
      [] scalar.kind = "PropertyColor" /\ arg.ov = "uint32_t" -> getPackedValue(val) = arg.v
      [] OTHER -> val = arg.v

NoHook(ev) == Count(ev, "pre") = 0 /\ Count(ev, "post") = 0

\* C10 as claimed: for every scalar cell (integer, float, bool, string, UUID,
\* path, color) setValue(v) fires exactly one pre-hook and one post-hook and
\* leaves getValue() = v, also when v is the value the cell already holds.
C10_SetValueUnconditional ==
    [][ (last'.op = "setValue" /\ GaveValue(last'.arg))
        => (OnePair(last'.ev) /\ IsGiven(last'.arg, scalar'.val)) ]_vars

\* C10 as amended: that holds for the integer, float, bool, UUID, path and
\* color cells. A string cell's setValue(v) returns at once, firing no hook,
\* when v is the text it already holds, and for an object's Label also when
\* onProposedLabelChange turns v into the text it already holds; otherwise it
\* fires exactly one pair and holds v, for a Label the text that
\* onProposedLabelChange left. A null character pointer given to a string or
\* UUID cell changes nothing and fires no hook.
C10_SetValueExceptSameString ==
    [][ last'.op = "setValue" =>
          LET arg == last'.arg
              settled == IF scalar.isLabel THEN arg.proposal.text ELSE arg.v.text
          IN  IF ~GaveValue(arg)
              THEN NoHook(last'.ev) /\ scalar' = scalar /\ doc' = doc
              ELSE IF scalar.kind = "PropertyString"
              THEN IF arg.v.text = scalar.val \/ settled = scalar.val
                   THEN NoHook(last'.ev) /\ scalar' = scalar /\ doc' = doc
                   ELSE OnePair(last'.ev) /\ scalar'.val = settled
              ELSE OnePair(last'.ev) /\ IsGiven(arg, scalar'.val) ]_vars

C10_Witness ==
    /\ last.op = "setValue" /\ scalar.kind = "PropertyString" /\ ~scalar.isLabel
    /\ ~last.arg.v.null /\ last.arg.v.text = scalar.val /\ scalar.val = "a"
    /\ last.ev = <<>>

\* Paste failed in the destination's cast: std::bad_cast, nothing assigned.
CastFailed(call) == call.res = "bad_cast" /\ Count(call.ev, "val") = 0

\* C11 as claimed: Paste(other) fails with a bad cast whenever other is not of
\* the destination's concrete kind, base/derived pairs included, and the
\* destination's value is unchanged.
C11_PasteOtherKindFails ==
    [][ (last'.op = "Paste" /\ last'.arg.from.kind # scalar.kind)
        => (CastFailed(last') /\ scalar'.val = scalar.val) ]_vars

\* C11 as amended: Paste(other) fails with a bad cast, leaving the value
\* unchanged, whenever other is neither of the class whose Paste the
\* destination runs nor of a class derived from it. A source of a derived
\* class is accepted: an integer cell takes the value of a percent or
\* constrained-integer cell, a float cell that of a precision or
\* constrained-float cell, and a string cell is set, as by setValue, to the
\* text of a font or persistent-object cell.
C11_PasteUnrelatedKindFails ==
    [][ last'.op = "Paste" =>
          LET from == last'.arg.from
              T == scalar.kind
          IN  IF from.kind \notin DerivedFrom(T)
              THEN CastFailed(last') /\ scalar' = scalar /\ doc' = doc
              ELSE /\ ~CastFailed(last')
                   /\ (from.kind # T /\ T # "PropertyString")
                        => (last'.res = "ok" /\ scalar'.val = from.val)
                   /\ (from.kind # T /\ T = "PropertyString" /\ ~scalar.isLabel)
                        => scalar'.val = (IF from.kind = "PropertyPersistentObject"
                                          THEN from.val[1] ELSE from.val) ]_vars

C11_Witness ==
    /\ last.op = "Paste" /\ scalar.kind = "PropertyInteger"
    /\ last.arg.from.kind = "PropertyPercent"
    /\ last.res = "ok" /\ scalar.val = last.arg.from.val /\ scalar.val = 2

Observable(kind, v, objects) ==
    IF kind = "PropertyPersistentObject"
    THEN [text |-> v[1], sub |-> IF v[2] = 0 THEN NoObject ELSE objects[v[2]]]
    ELSE [text |-> "", sub |-> NoObject, value |-> v]

\* C13 as claimed: Copy() returns a cell whose value equals the original's,
\* and afterwards a mutation of the copy (setValue, Restore) leaves every
\* observable part of the original unchanged, and the other way round.
C13_CopyIsIndependent ==
    [][ /\ last'.op = "Copy"
           => Observable(pair.kind, pair'.copy, pair'.objects)
                = Observable(pair.kind, pair.orig, pair.objects)
        /\ (last'.op \in {"setValue", "Restore"} /\ pair.hasCopy)
           => LET untouched == IF last'.arg.target = "copy" THEN "orig" ELSE "copy"
              IN  Observable(pair.kind, pair'[untouched], pair'.objects)
                    = Observable(pair.kind, pair[untouched], pair.objects) ]_vars

\* The last call was setValue on a Label cell with a text other than the one
\* it holds.
LabelCall(call) ==
    /\ call.op = "setValue" /\ scalar.kind = "PropertyString" /\ scalar.isLabel
    /\ ~call.arg.v.null /\ call.arg.v.text # scalar.val

\* C14: setValue(new text) on a Label first offers the text to
\* onProposedLabelChange. If that hands back auxiliary changes and no
\* transaction is active, the events are: open transaction, pre-hook, value
\* replaced, post-hook, each auxiliary change pasted, close transaction. If a
\* transaction is active the cell neither opens nor closes one. If the hook
\* rewrites the text to the current value, nothing changes: no pre-hook or
\* post-hook, no transaction, no auxiliary change.
C14_LabelEventOrder ==
    [][ (LabelCall(last') /\ \A i \in DOMAIN last'.arg.proposal.changes :
                                last'.arg.proposal.changes[i].pastes)
        => LET proposal == last'.arg.proposal
               ev == last'.ev
           IN  IF proposal.text = scalar.val
               THEN ev = <<"propose">> /\ scalar' = scalar /\ doc' = doc
               ELSE IF proposal.changes # <<>> /\ doc.activeTransaction = ""
               THEN /\ ev = <<"propose", "open", "pre", "val", "post">>
                            \o [i \in DOMAIN proposal.changes |-> "paste"] \o <<"close">>
                    /\ scalar'.val = proposal.text
                    /\ doc'.related = proposal.changes[Len(proposal.changes)].text
                    /\ doc'.activeTransaction = ""
               ELSE /\ ev = <<"propose", "pre", "val", "post">>
                            \o [i \in DOMAIN proposal.changes |-> "paste"]
                    /\ scalar'.val = proposal.text
                    /\ doc'.activeTransaction = doc.activeTransaction ]_vars

C14_Witness ==
    /\ last.op = "setValue" /\ scalar.isLabel
    /\ last.ev = <<"propose", "open", "pre", "val", "post", "paste", "paste", "close">>
    /\ scalar.val = "a" /\ doc.related = "b" /\ doc.activeTransaction = ""

\* C15 as claimed: every transaction a Label cell's setValue opens is closed
\* when setValue gives control back, on every exit path, also when the Paste
\* of an auxiliary change fails.
C15_OpenedTransactionClosed ==
    (scalar.kind = "PropertyString" /\ last.op \in {"setValue", "Paste"})
        => Count(last.ev, "open") = Count(last.ev, "close")

\* C16 as claimed: a material list holds at least one element after
\* construction and after every mutator, setDiffuseColors and
\* setTransparencies with an empty vector included.
C16_SizeAtLeastOne ==
    mlist.field \in Fields => Len(mlist.list) >= 1

\* The element at a C++ index, and the indexed field setter's call.
At(list, index) == list[index + 1]
IndexedSetter == last'.op = "setFieldAt" /\ last'.res = "ok"

\* C17: a field setter with index -1 or n on a list of n elements appends
\* exactly one element, sets the field of the new last element and leaves
\* elements 0..n-1 as they were; with 0 <= index < n the size stays and only
\* that field of that element changes.
C17_IndexedSetterGrowsByOne ==
    [][IndexedSetter =>
        LET n == Len(mlist.list)
            index == last'.arg.index
            field == last'.arg.field
            stored == ColorOf(last'.arg.ov, last'.arg.v)
        IN  /\ index \in {-1, n} =>
                /\ Len(mlist'.list) = n + 1
                /\ At(mlist'.list, n)[field] = stored
                /\ \A i \in 0..(n - 1) : At(mlist'.list, i) = At(mlist.list, i)
            /\ (0 <= index /\ index < n) =>
                /\ Len(mlist'.list) = n
                /\ At(mlist'.list, index) = [At(mlist.list, index) EXCEPT ![field] = stored]
                /\ \A i \in 0..(n - 1) : i # index => At(mlist'.list, i) = At(mlist.list, i)]_vars

C17_Witness ==
    /\ last.op = "setFieldAt" /\ last.res = "ok" /\ last.arg.index = -1
    /\ Len(mlist.list) = 2
    /\ mlist.list[1] = OtherMaterial
    /\ mlist.list[2] = [DefaultMaterial EXCEPT ![mlist.field] = ColorOf(last.arg.ov, last.arg.v)]

\* C18: an index-qualified setter given an index below -1 or above the size
\* fails with the bounds error before any hook fires; the list is unchanged.
C18_BadIndexRejectedFirst ==
    [][(/\ last'.op \in {"setFieldAt", "setValueAt"}
        /\ (last'.arg.index < -1 \/ last'.arg.index > Len(mlist.list)))
        => (last'.res = "RuntimeError" /\ last'.ev = <<"throw">> /\ mlist' = mlist)]_vars

C18_Witness ==
    /\ last.op = "setFieldAt" /\ last.res = "RuntimeError" /\ last.ev = <<"throw">>
    /\ last.arg.index = Len(mlist.list) + 1
    /\ Len(mlist.list) = 2

\* A version-3 file has just been read under recorded version 3.
ReadV3 ==
    /\ last'.op = "RestoreDocFile" /\ last'.arg.format = "V3"
    /\ mlist.formatVersion = Version_3
\* The color a packed word gives back: every channel a whole number of 255ths.
Rounded(c) == setPackedValue(getPackedValue(c))
AsStored(mat) ==
    [mat EXCEPT !.ambientColor = Rounded(@), !.diffuseColor = Rounded(@),
                !.specularColor = Rounded(@), !.emissiveColor = Rounded(@)]

\* C19 as claimed: RestoreDocFile under recorded version 3, applied to what
\* SaveDocFile wrote for a list, yields a list of the same length with every
\* field of every element equal.
C19_RoundTripEveryField ==
    [][(ReadV3 /\ last'.arg.v # <<>>) => mlist'.list = last'.arg.v]_vars

\* C19, amended: SaveDocFile writes the count, the six fixed fields of every
\* element, then the three strings of every element, each as its size and
\* characters. Read back under recorded version 3 the list has the same
\* length, shininess, transparency and the three strings (empty ones
\* included) equal, and every color rounded to 8 bits per channel. A file of
\* version 0 or 2 with at least one element, read under recorded version 0
\* or 2, yields elements with empty strings. A file of any version with
\* count 0 leaves the cell with its first element (strings included) alone.
C19_RoundTripColorsRounded ==
    [][/\ \A source \in MatLists(MaxMats) :
            SubSeq(SaveDocFile(source), 1, 1 + 6 * Len(source)) = SaveDocFileV0(source)
       /\ (ReadV3 /\ last'.arg.v # <<>>) =>
            /\ Len(mlist'.list) = Len(last'.arg.v)
            /\ \A i \in DOMAIN mlist'.list : mlist'.list[i] = AsStored(last'.arg.v[i])
       /\ (last'.op = "RestoreDocFile" /\ last'.arg.v = <<>>) =>
            mlist'.list = SetSize(mlist.list, 1, DefaultMaterial)
       /\ (/\ last'.op = "RestoreDocFile" /\ last'.arg.format = "V0" /\ last'.arg.v # <<>>
           /\ mlist.formatVersion \in {Version_0, Version_2}) =>
            \A i \in DOMAIN mlist'.list :
                mlist'.list[i].image = "" /\ mlist'.list[i].imagePath = ""
                    /\ mlist'.list[i].uuid = ""]_vars

C19_Witness ==
    /\ last.op = "RestoreDocFile" /\ last.arg.format = "V3"
    /\ mlist.formatVersion = Version_3
    /\ last.arg.v = <<OtherMaterial, DefaultMaterial>>
    /\ mlist.list = <<AsStored(OtherMaterial), DefaultMaterial>>
    /\ mlist.list[1].uuid = "u1" /\ mlist.list[1].imagePath = ""
    /\ mlist.list[1].diffuseColor # OtherMaterial.diffuseColor

\* The child elements of a text, and how many values a cell holds.
ChildElements(file) == SelectSeq(file, LAMBDA el : el.k = "empty")
SizeOf(kind, v) == IF kind \in {"PropertyIntegerSet"} THEN Cardinality(v)
                   ELSE IF kind = "PropertyMap" THEN Cardinality(DOMAIN v) ELSE Len(v)

\* C20: for the integer, bool, integer list, integer set, string list, map
\* and bool list cells, Restore of a fresh cell on the text Save wrote of a
\* cell gives the fresh cell a value equal to that cell's; the count
\* attribute written is the number of child elements written, and that many
\* are read.
C20_TextRoundTrip ==
    [][(last'.op = "Restore" /\ saved.kind \in XmlKinds
            /\ saved.file = SaveText(saved.kind, saved.orig)) =>
        /\ saved'.fresh = saved.orig
        /\ saved.kind \in Counted =>
            /\ getAttributeAsInteger(saved.file[1].a) = Len(ChildElements(saved.file))
            /\ Len(ChildElements(saved.file)) = SizeOf(saved.kind, saved.orig)
            /\ SizeOf(saved.kind, saved'.fresh) = Len(ChildElements(saved.file))]_vars

C20_Witness ==
    /\ last.op = "Restore" /\ saved.kind = "PropertyStringList"
    /\ saved.orig = <<Texts[2], Texts[3]>>
    /\ saved.file = SaveText(saved.kind, saved.orig)
    /\ saved.fresh = saved.orig
    /\ saved.file[2].a # Texts[2]

\* The text is what Save wrote of the list as it is now.
SavedAsIs ==
    /\ saved.kind \in BulkKinds /\ saved.written
    /\ saved.file = BulkSave(saved.kind, saved.orig, saved.forceXML)

\* C21 as claimed: for the float, color and material lists, in both writer
\* modes, Save emits exactly one element, which Restore consumes; forced to
\* XML, Restore reads back the values Save inlined; in file mode Restore
\* registers the file and the RestoreDocFile that follows reproduces the list.
C21_RestoreMirrorsSave ==
    [][/\ (last'.op = "Save" /\ saved'.kind \in BulkKinds) => Len(saved'.file) = 1
       /\ (last'.op = "Restore" /\ SavedAsIs) =>
            /\ last'.res = "ok"
            /\ saved.forceXML => saved'.fresh = saved.orig
            /\ (~saved.forceXML /\ saved.orig # <<>>) => saved'.pending
       /\ (last'.op = "RestoreDocFile" /\ SavedAsIs /\ ~saved.single) =>
            saved'.fresh = saved.orig]_vars

\* A setPyObject call on the integer or the float cell.
NumberGiven == last'.op = "setPyObject" /\ scalar.kind \in {"PropertyInteger", "PropertyFloat"}
Took(v) == last'.res = "ok" /\ scalar'.val = v /\ last'.ev = <<"pre", "val", "post">>
Refused == last'.res = "TypeError" /\ scalar'.val = scalar.val /\ last'.ev = <<"throw">>

\* C22 as claimed: setPyObject on a float cell accepts a float or an int, on
\* an integer cell an int or a float, which it stores rounded half away from
\* zero; every other type is a type error and leaves the value.
C22_NumberTakesBothKinds ==
    [][NumberGiven =>
        LET t == last'.arg.t
            v == last'.arg.v
        IN  IF PyLong_Check(t)
            THEN Took(IF scalar.kind = "PropertyFloat" THEN ToDouble(v) ELSE v)
            ELSE IF PyFloat_Check(t)
            THEN Took(IF scalar.kind = "PropertyFloat" THEN v ELSE Round(v))
            ELSE Refused]_vars

\* C22, amended: setPyObject on a float cell accepts a float or an int; on
\* an integer cell it accepts an int only, and a float is a type error like
\* every other type, the value unchanged.
C22_IntegerTakesIntOnly ==
    [][NumberGiven =>
        LET t == last'.arg.t
            v == last'.arg.v
        IN  IF PyLong_Check(t)
            THEN Took(IF scalar.kind = "PropertyFloat" THEN ToDouble(v) ELSE v)
            ELSE IF PyFloat_Check(t) /\ scalar.kind = "PropertyFloat"
            THEN Took(v)
            ELSE Refused]_vars

C22_Witness ==
    /\ last.op = "setPyObject" /\ scalar.kind = "PropertyInteger"
    /\ last.arg.t = "float" /\ last.arg.v \in HalfVals
    /\ last.res = "TypeError" /\ scalar.val = 2

\* The types a cell's setPathValue takes by a branch of its own.
AcceptedTypes(kind) ==
    CASE kind = "PropertyInteger" -> {"long", "int", "double", "float", "Quantity"}
      [] kind = "PropertyFloat" -> {"long", "unsigned long", "int", "double", "float", "Quantity"}
      [] kind = "PropertyBool" -> {"bool", "int", "long", "double", "float", "Quantity"}
      [] kind = "PropertyString" ->
            {"bool", "int", "long", "double", "float", "Quantity", "std::string"}
      [] kind = "PropertyEnumeration" ->
            {"int", "long", "double", "float", "short", "std::string"}
PathGivenOther(kinds) ==
    /\ last'.op = "setPathValue" /\ scalar.kind \in kinds
    /\ last'.arg.path = "" /\ last'.arg.type \notin AcceptedTypes(scalar.kind)
RefusedBadCast == last'.res = "bad_cast" /\ scalar'.val = scalar.val /\ last'.ev = <<"throw">>

StringGiven ==
    last'.op = "setPyObject" /\ scalar.kind = "PropertyEnumeration" /\ last'.arg.t = "str"

\* C24: setPyObject on an enumeration cell with a string that is not one of
\* the labels fails with the value error that names the string and the cell,
\* fires no hook and leaves index and labels; with one of the labels it
\* selects that label inside one bracket.
C24_LabelOrValueError ==
    [][StringGiven =>
        LET str == last'.arg.v
        IN  IF \E i \in DOMAIN scalar.val.labels : scalar.val.labels[i] = str
            THEN /\ last'.res = "ok" /\ last'.ev = <<"pre", "val", "post">>
                 /\ scalar'.val.labels = scalar.val.labels
                 /\ scalar'.val.index \in 0..(Len(scalar.val.labels) - 1)
                 /\ scalar.val.labels[scalar'.val.index + 1] = str
            ELSE last'.res = NotPartOf /\ last'.ev = <<"throw">> /\ scalar'.val = scalar.val
    ]_vars
C24_Witness ==
    /\ last.op = "setPyObject" /\ scalar.kind = "PropertyEnumeration" /\ last.arg.t = "str"
    /\ last.arg.v = "x" /\ last.res = NotPartOf /\ scalar.val = Enum(1, <<"y", "z">>)

IndexGiven ==
    /\ last'.op = "setPyObject" /\ scalar.kind = "PropertyEnumeration"
    /\ PyLong_Check(last'.arg.t)
AskedAsString == last'.op = "getValueAsString" /\ scalar.kind = "PropertyEnumeration"
Selected(e) == e.index >= 0 /\ e.index < Len(e.labels)

\* C26 as claimed: setPyObject on an enumeration cell with an int makes that
\* int the selected index whatever the labels and the selection, raising no
\* error; getValueAsString then fails with a runtime error if the selection
\* is not valid.
C26_IndexTakenUnchecked ==
    [][/\ IndexGiven =>
            /\ last'.res = "ok"
            /\ scalar'.val = Enum(last'.arg.v, scalar.val.labels)
       /\ AskedAsString /\ ~Selected(scalar.val) => last'.res = "RuntimeError"
      ]_vars

\* C26 amended: the int is taken only by a cell whose selection is valid and
\* only if it is an index of a label; a cell whose selection is not valid
\* drops it without an error and without a hook, and an index outside the
\* labels is a value error raised after the pre-change hook, the selection
\* kept. getValueAsString fails with a runtime error exactly when the
\* selection is not valid.
C26_IndexTakenIfValid ==
    [][/\ IndexGiven =>
            LET idx == last'.arg.v
            IN  IF ~Selected(scalar.val)
                THEN last'.res = "ok" /\ last'.ev = <<>> /\ scalar'.val = scalar.val
                ELSE IF idx >= 0 /\ idx < Len(scalar.val.labels)
                THEN Took(Enum(idx, scalar.val.labels))
                ELSE /\ last'.res = OutOfRangeError /\ last'.ev = <<"pre", "throw">>
                     /\ scalar'.val = scalar.val
       /\ AskedAsString =>
            /\ scalar'.val = scalar.val
            /\ (last'.res = "RuntimeError") <=> ~Selected(scalar.val)
      ]_vars
C26_Witness ==
    /\ last.op = "setPyObject" /\ scalar.kind = "PropertyEnumeration"
    /\ last.arg.t = "int" /\ last.arg.v = 1
    /\ last.res = "ok" /\ last.ev = <<>> /\ scalar.val = Enum(2, <<"y", "z">>)

\* C25: after Restore of an enumeration cell whose labels are not empty, a
\* stored index that is negative or not below the number of labels has not
\* been taken, and the selected index is the index of a label.
C25_RestoredIndexInRange ==
    [][/\ last'.op = "Restore" /\ scalar.kind = "PropertyEnumeration"
       /\ last'.res = "ok" /\ scalar'.val.labels # <<>>
       => /\ scalar'.val.index \in 0..(Len(scalar'.val.labels) - 1)
          /\ last'.arg.file.val \notin 0..(Len(scalar'.val.labels) - 1) =>
                scalar'.val.index # last'.arg.file.val
      ]_vars

RestoreFailed == last'.op = "Restore" /\ last'.res # "ok"
ValueKept ==
    /\ scalar' = scalar
    /\ saved.kind # "none" => saved'.fresh = saved.fresh
ReadBefore(file, i) == \A j \in 1..i : RequiredAttributes[j] \in file.has

\* C27: a Restore that fails before the pre-change hook leaves the value and
\* fires no hook. Restore of the integer list, integer set, string list and
\* map cell fails only so, wherever the text ends and whatever its count. A
\* Restore of the enumeration or material cell that fails after the
\* pre-change hook fires no post-change hook, and leaves the material with
\* the attributes read before the missing one and its other fields as they
\* were.
C27_FailureBeforeBracketKeepsValue ==
    [][RestoreFailed =>
        /\ last'.ev[1] # "pre" => ValueKept /\ last'.ev = <<"throw">>
        /\ saved.kind \in Counted => ValueKept /\ last'.ev = <<"throw">>
        /\ last'.ev[1] = "pre" =>
            /\ last'.ev = <<"pre", "throw">>
            /\ saved.kind = "PropertyMaterial" \/ scalar.kind = "PropertyEnumeration"
            /\ saved.kind = "PropertyMaterial" =>
                \A i \in DOMAIN RequiredAttributes :
                    LET name == RequiredAttributes[i]
                    IN  saved'.fresh[name] =
                            IF ReadBefore(last'.arg.file, i) THEN AttributeOf(name)
                            ELSE saved.fresh[name]
    ]_vars
C27_Witness ==
    /\ last.op = "Restore" /\ last.res = "XMLParseException"
    /\ saved.kind = "PropertyStringList"
    /\ last.arg.damage = [how |-> "cut", at |-> 2]
    /\ Len(saved.file) = 4 /\ Len(saved.fresh) = 1 /\ saved.fresh # SubSeq(saved.orig, 1, 1)

\* The parse that starts with a signed word: a count, or a development
\* version tag followed by the count.
LegacyParse(file) ==
    LET w == Word(file, 1)
    IN  IF w < 0 THEN RestoreDocFileV0(Word(file, 2), file, 3) ELSE RestoreDocFileV0(w, file, 2)
FileRead == Written(last'.arg.format, last'.arg.v)
Parsed(values) == mlist'.list = MaterialList_setValues(values).list

\* C28: RestoreDocFile of a material list parses by the recorded version: 2
\* reads a count and version-0 records, 3 the version-3 layout, any other a
\* signed word that is the count of version-0 records or, if negative, a
\* development tag followed by that count.
C28_ParserByRecordedVersion ==
    [][last'.op = "RestoreDocFile" =>
        IF mlist.formatVersion = 2 THEN Parsed(RestoreDocFileV0(Word(FileRead, 1), FileRead, 2))
        ELSE IF mlist.formatVersion = 3 THEN Parsed(RestoreDocFileV3(FileRead))
        ELSE Parsed(LegacyParse(FileRead))
    ]_vars
C28_Witness ==
    /\ last.op = "RestoreDocFile" /\ last.arg.format = "dev"
    /\ mlist.formatVersion = 1
    /\ Len(last.arg.v) = 2 /\ Len(mlist.list) = 2
    /\ mlist.list[2].diffuseColor = AsStored(last.arg.v[2]).diffuseColor

\* C29: the parse of RestoreDocFile is chosen by the Restore before it alone:
\* after a Restore of an element with no version attribute it is the parse
\* that starts with a signed word, whatever versions earlier Restores read.
C29_ParserByLatestRestore ==
    [][(last'.op = "RestoreDocFile" /\ last.op = "Restore" /\ last.arg.version = <<>>) =>
        /\ mlist.formatVersion \notin {Version_2, Version_3}
        /\ Parsed(LegacyParse(FileRead))
    ]_vars

\* C30: whenever the view handles a DirectionVector notification under
\* boundary type inlet or outlet, pShapeSep has a child for every point and
\* every child it updates is an arrow; a Points notification that is not
\* skipped leaves one glyph per point.
C30_ArrowForEveryPoint ==
    [][last'.op = "updateData" =>
        /\ (last'.arg.prop = "DirectionVector" /\ view'.BoundaryType \in {"inlet", "outlet"}) =>
            /\ Len(view.pShapeSep) >= view'.Points
            /\ \A i \in 1..view'.Points : view.pShapeSep[i].kind = "arrow"
        /\ (/\ last'.arg.prop = "Points"
            /\ view'.BoundaryType \in {"inlet", "outlet"} \/ view'.Points = view'.Normals) =>
            Len(view'.pShapeSep) = view'.Points
    ]_vars

====
